---- MODULE Spec2Model ----
(***************************************************************************)
(* A model of the scoutfs-go client library: the batch cursors that walk   *)
(* the filesystem's indexes through the ioctl call gate (Query, Waiters,   *)
(* XattrQuery, TotalsGroup, Quotas), the composite-key arithmetic they     *)
(* rest on, the single-total lookup, the back-reference listing and its    *)
(* record decoding, the multi-path resolution and the order of quota       *)
(* rules.  The kernel side of each ioctl is the environment: it answers a  *)
(* request from a fixed index, or fails with an errno.                     *)
(***************************************************************************)
EXTENDS Integers, Sequences, FiniteSets, TLC

VARIABLES
    obj,     \* the object the client constructed: its kind and its value as constructed
    q,       \* the Query struct
    w,       \* the Waiters struct
    xq,      \* the XattrQuery struct
    tg,      \* the TotalsGroup struct
    qt,      \* the Quotas struct
    kern,    \* the kernel-side index the ioctl answers from (fixed)
    acc,     \* the entries the client has collected from successful Next calls
    hist,    \* the last operation: cursor before it, requests sent, result
    entry,   \* the InodesEntry Increment is applied to
    probe,   \* a second key, compared against entry
    call,    \* the locals of the library function that is looping, if any
    rset,    \* the RuleSet the client holds
    cursors  \* two Query cursors over one handle: struct, buffer, batches returned

vars == <<obj, q, w, xq, tg, qt, kern, acc, hist, entry, probe, call, rset, cursors>>

(***************************************************************************)
(* Bounds.  max64 and max32 stand for 2^64-1 and 2^32-1: every uint64 and  *)
(* uint32 of the code is kept modulo max64+1 and max32+1, so the wrap of   *)
(* each word is reachable.                                                 *)
(***************************************************************************)
max64 == 2
max32 == 1
MaxBatch == 2
MaxEntries == 2
MaxAcc == MaxEntries + 1

U64 == 0..max64
U32 == 0..max32

\* x++ on a uint64 / uint32
Inc64(x) == (x + 1) % (max64 + 1)
Inc32(x) == (x + 1) % (max32 + 1)

(***************************************************************************)
(* Go values: the nil error, a (slice, error) result, errno values.        *)
(***************************************************************************)
NoErr == "nil"
ErrEOF == "EOF"

RetNil == [val |-> <<>>, isnil |-> TRUE, err |-> NoErr]
RetErr(e) == [val |-> <<>>, isnil |-> TRUE, err |-> e]
RetVal(s) == [val |-> s, isnil |-> FALSE, err |-> NoErr]

\* no library function is in the middle of its loop
NoCall == [fn |-> "none"]

Errnos == {"EAGAIN", "EIO"}

errEAGAIN == "EAGAIN"
errEINVAL == "EINVAL"
errENOENT == "ENOENT"

errnoErr(e) ==
    CASE e = "0" -> NoErr
      [] e = "EAGAIN" -> errEAGAIN
      [] e = "EINVAL" -> errEINVAL
      [] e = "ENOENT" -> errENOENT
      [] OTHER -> e

\* scoutfsctl: the count the ioctl returned and the error made of its errno
scoutfsctl(count, e1) ==
    [n |-> count, err |-> IF e1 # "0" THEN errnoErr(e1) ELSE NoErr]

(***************************************************************************)
(* Helpers on sequences.                                                   *)
(***************************************************************************)
Min(a, b) == IF a < b THEN a ELSE b

Take(s, n) == SubSeq(s, 1, Min(n, Len(s)))

Last(s) == s[Len(s)]

SubsetsUpTo(S, n) == {T \in SUBSET S : Cardinality(T) <= n}

(***************************************************************************)
(* Composite keys of the inode walk.                                       *)
(***************************************************************************)
InodesEntry(major, minor, ino) == [Major |-> major, Minor |-> minor, Ino |-> ino]

Keys == {InodesEntry(a, b, c) : a \in U64, b \in U32, c \in U64}

ZeroKey == InodesEntry(0, 0, 0)
MaxKey == InodesEntry(max64, max32, max64)

\* the order of the kernel's index: Major, then Minor, then Ino
KeyLess(a, b) ==
    \/ a.Major < b.Major
    \/ a.Major = b.Major /\ a.Minor < b.Minor
    \/ a.Major = b.Major /\ a.Minor = b.Minor /\ a.Ino < b.Ino

KeyLeq(a, b) == a = b \/ KeyLess(a, b)

IncrementNoCarry(i) == [i EXCEPT !.Ino = Inc64(i.Ino)]

Increment(i) ==
    LET a == [i EXCEPT !.Ino = Inc64(i.Ino)]
        b == IF a.Ino = 0 THEN [a EXCEPT !.Minor = Inc32(a.Minor)] ELSE a
    IN  IF a.Ino = 0 /\ b.Minor = 0 THEN [b EXCEPT !.Major = Inc64(b.Major)] ELSE b

RECURSIVE SortKeys(_)
SortKeys(S) ==
    IF S = {} THEN <<>>
    ELSE LET m == CHOOSE k \in S : \A o \in S : KeyLeq(k, o)
         IN  <<m>> \o SortKeys(S \ {m})

\* keys at the carry boundaries of the key space
SampleKeys ==
    { ZeroKey,
      InodesEntry(0, 0, max64), Increment(InodesEntry(0, 0, max64)),
      InodesEntry(0, max32, max64), Increment(InodesEntry(0, max32, max64)),
      MaxKey }

(***************************************************************************)
(* Decoding a batch out of the output buffer.  binary.Read takes size      *)
(* bytes per entry from a reader over the whole buffer and fails with EOF  *)
(* once the buffer is used up; entry i is what the kernel wrote at slot i. *)
(***************************************************************************)
DecodeFails(n, size, buflen) == n * size > buflen

(***************************************************************************)
(* Query: the inode walk.                                                  *)
(***************************************************************************)
QUERYINODESMETASEQ == 0
QUERYINODESDATASEQ == 1
sizeofInodesEntry == 24
defaultBatch == 128

ByMSeq(from, to) == [opt |-> "ByMSeq", from |-> from, to |-> to, size |-> 0]
ByDSeq(from, to) == [opt |-> "ByDSeq", from |-> from, to |-> to, size |-> 0]
WithBatchSize(size) == [opt |-> "WithBatchSize", from |-> ZeroKey, to |-> ZeroKey, size |-> size]

ApplyOption(qq, o) ==
    CASE o.opt = "ByMSeq" ->
           [qq EXCEPT !.first = o.from, !.last = o.to, !.index = QUERYINODESMETASEQ]
      [] o.opt = "ByDSeq" ->
           [qq EXCEPT !.first = o.from, !.last = o.to, !.index = QUERYINODESDATASEQ]
      [] o.opt = "WithBatchSize" ->
           [qq EXCEPT !.batch = o.size]

RECURSIVE ApplyOptionsReversed(_, _)
ApplyOptionsReversed(qq, opts) ==
    IF opts = <<>> THEN qq
    ELSE ApplyOption(ApplyOptionsReversed(qq, Tail(opts)), Head(opts))

RECURSIVE ApplyOptions(_, _)
ApplyOptions(qq, opts) ==
    IF opts = <<>> THEN qq
    ELSE ApplyOptions(ApplyOption(qq, Head(opts)), Tail(opts))

\* the zero value of the struct
ZeroQuery == [first |-> ZeroKey, last |-> ZeroKey, index |-> 0, batch |-> 0, buflen |-> 0]

NewQueryBufferFirst(opts) ==
    LET qq == ApplyOptions([ZeroQuery EXCEPT !.batch = defaultBatch], opts)
    IN  [qq EXCEPT !.buflen = sizeofInodesEntry * defaultBatch]

NewQuery(opts) ==
    LET qq == ApplyOptions([ZeroQuery EXCEPT !.batch = defaultBatch], opts)
    IN  [qq EXCEPT !.buflen = sizeofInodesEntry * qq.batch]

QueryRequest(qq) ==
    [First |-> qq.first, Last |-> qq.last, Nr_entries |-> qq.batch, Index |-> qq.index]

\* IOCQUERYINODES, kernel side: the entries of the selected index with
\* First <= key <= Last, in key order, at most Nr_entries of them
WalkInodes(index, req) ==
    Take(SortKeys({k \in index[req.Index] : KeyLeq(req.First, k) /\ KeyLeq(k, req.Last)}),
         req.Nr_entries)

\* every outcome of the ioctl: an errno, the batch, or a count that is more
\* than the buffer was sized for
QueryResponses(index, req) ==
    LET ents == WalkInodes(index, req)
    IN  {[c |-> scoutfsctl(-1, e), ents |-> <<>>] : e \in Errnos}
        \cup {[c |-> scoutfsctl(Len(ents), "0"), ents |-> ents]}
        \cup {[c |-> scoutfsctl(req.Nr_entries + 1, "0"), ents |-> ents]}

QueryNextAdvanceOnEmpty(qq, resp) ==
    IF resp.c.err # NoErr THEN [q |-> qq, ret |-> RetErr(resp.c.err)]
    ELSE IF resp.c.n = 0 THEN [q |-> [qq EXCEPT !.first = Increment(qq.first)], ret |-> RetNil]
    ELSE IF DecodeFails(resp.c.n, sizeofInodesEntry, qq.buflen)
         THEN [q |-> qq, ret |-> RetErr(ErrEOF)]
    ELSE [q |-> [qq EXCEPT !.first = Increment(resp.ents[resp.c.n])],
          ret |-> RetVal(SubSeq(resp.ents, 1, resp.c.n))]

QueryNextResult(qq, resp) ==
    IF resp.c.err # NoErr THEN [q |-> qq, ret |-> RetErr(resp.c.err)]
    ELSE IF resp.c.n = 0 THEN [q |-> qq, ret |-> RetNil]
    ELSE IF DecodeFails(resp.c.n, sizeofInodesEntry, qq.buflen)
         THEN [q |-> qq, ret |-> RetErr(ErrEOF)]
    ELSE [q |-> [qq EXCEPT !.first = Increment(resp.ents[resp.c.n])],
          ret |-> RetVal(SubSeq(resp.ents, 1, resp.c.n))]

\* hist after construction: nothing called yet
Fresh(cursor) == [op |-> "New", pre |-> cursor, reqs |-> <<>>, resps |-> <<>>, ret |-> RetNil]

QueryNext ==
    /\ obj.kind = "Query"
    /\ Len(acc) < MaxAcc
    /\ \E resp \in QueryResponses(kern, QueryRequest(q)) :
         LET r == QueryNextResult(q, resp)
         IN  /\ q' = r.q
             /\ acc' = acc \o r.ret.val
             /\ hist' = [op |-> "Query.Next", pre |-> q, reqs |-> <<QueryRequest(q)>>,
                         resps |-> <<resp>>, ret |-> r.ret]
    /\ UNCHANGED <<obj, w, xq, tg, qt, kern, entry, probe, call, rset, cursors>>

\* the stopping points a caller moves a Query to
LastKeys == {ZeroKey, Increment(InodesEntry(0, 0, max64)), MaxKey}

SetLastIgnored(qq, l) == qq

SetLast(qq, l) == [qq EXCEPT !.last = l]

QuerySetLast ==
    /\ obj.kind = "Query"
    /\ \E l \in LastKeys :
         /\ q' = SetLast(q, l)
         /\ hist' = [op |-> "Query.SetLast", pre |-> q, reqs |-> <<>>, resps |-> <<>>,
                     ret |-> RetNil, arg |-> l]
    /\ UNCHANGED <<obj, w, xq, tg, qt, kern, acc, entry, probe, call, rset, cursors>>

(***************************************************************************)
(* Waiters: the data-wait queue.                                           *)
(***************************************************************************)
DATAWAITOPREAD == 1
DATAWAITOPWRITE == 2
sizeofDataWaitingEntry == 24

DataWaitingEntry(ino, iblock, op) == [Ino |-> ino, Iblock |-> iblock, Op |-> op]

WithWaitersCount(size) == [opt |-> "WithWaitersCount", size |-> size]

ZeroWaiters == [ino |-> 0, iblock |-> 0, batch |-> 0, buflen |-> 0]

NewWaiters(opts) ==
    LET b == IF opts = <<>> THEN defaultBatch ELSE Last(opts).size
    IN  [ZeroWaiters EXCEPT !.batch = b, !.buflen = sizeofDataWaitingEntry * b]

WaitersRequest(ww) ==
    [After_ino |-> ww.ino, After_iblock |-> ww.iblock, Ents_nr |-> ww.batch]

WaitLess(a, b) == a.Ino < b.Ino \/ (a.Ino = b.Ino /\ a.Iblock < b.Iblock)

RECURSIVE SortWaits(_)
SortWaits(S) ==
    IF S = {} THEN <<>>
    ELSE LET m == CHOOSE k \in S : \A o \in S : o = k \/ WaitLess(k, o)
         IN  <<m>> \o SortWaits(S \ {m})

\* IOCDATAWAITING, kernel side: the waits after (After_ino, After_iblock),
\* in (Ino, Iblock) order, at most Ents_nr of them
DataWaiting(waits, req) ==
    Take(SortWaits({e \in waits :
                      WaitLess([Ino |-> req.After_ino, Iblock |-> req.After_iblock], e)}),
         req.Ents_nr)

WaitersResponses(waits, req) ==
    LET ents == DataWaiting(waits, req)
    IN  {[c |-> scoutfsctl(-1, e), ents |-> <<>>] : e \in Errnos}
        \cup {[c |-> scoutfsctl(Len(ents), "0"), ents |-> ents]}
        \cup {[c |-> scoutfsctl(req.Ents_nr + 1, "0"), ents |-> ents]}

WaitersNextFirstOfBatch(ww, resp) ==
    IF resp.c.err # NoErr THEN [w |-> ww, ret |-> RetErr(resp.c.err)]
    ELSE IF resp.c.n = 0 THEN [w |-> ww, ret |-> RetNil]
    ELSE IF DecodeFails(resp.c.n, sizeofDataWaitingEntry, ww.buflen)
         THEN [w |-> ww, ret |-> RetErr(ErrEOF)]
    ELSE [w |-> [ww EXCEPT !.ino = resp.ents[1].Ino, !.iblock = resp.ents[1].Iblock],
          ret |-> RetVal(SubSeq(resp.ents, 1, resp.c.n))]

WaitersNextResult(ww, resp) ==
    IF resp.c.err # NoErr THEN [w |-> ww, ret |-> RetErr(resp.c.err)]
    ELSE IF resp.c.n = 0 THEN [w |-> ww, ret |-> RetNil]
    ELSE IF DecodeFails(resp.c.n, sizeofDataWaitingEntry, ww.buflen)
         THEN [w |-> ww, ret |-> RetErr(ErrEOF)]
    ELSE [w |-> [ww EXCEPT !.ino = resp.ents[resp.c.n].Ino,
                           !.iblock = resp.ents[resp.c.n].Iblock],
          ret |-> RetVal(SubSeq(resp.ents, 1, resp.c.n))]

WaitersNext ==
    /\ obj.kind = "Waiters"
    /\ Len(acc) < MaxAcc
    /\ \E resp \in WaitersResponses(kern, WaitersRequest(w)) :
         LET r == WaitersNextResult(w, resp)
         IN  /\ w' = r.w
             /\ acc' = acc \o r.ret.val
             /\ hist' = [op |-> "Waiters.Next", pre |-> w, reqs |-> <<WaitersRequest(w)>>,
                         resps |-> <<resp>>, ret |-> r.ret]
    /\ UNCHANGED <<obj, q, xq, tg, qt, kern, entry, probe, call, rset, cursors>>

WaitersReset ==
    /\ obj.kind = "Waiters"
    /\ w' = [w EXCEPT !.ino = 0, !.iblock = 0]
    /\ acc' = <<>>
    /\ hist' = [op |-> "Waiters.Reset", pre |-> w, reqs |-> <<>>, resps |-> <<>>,
                ret |-> RetNil]
    /\ UNCHANGED <<obj, q, xq, tg, qt, kern, entry, probe, call, rset, cursors>>

(***************************************************************************)
(* XattrQuery: the xattr presence search.                                  *)
(***************************************************************************)
SEARCHXATTRSOFLAGEND == 1
sizeofU64 == 8
defaultXBatch == 131072

\* flags & bit != 0, for a single-bit mask
HasFlag(flags, bit) == (flags \div bit) % 2 = 1

WithXBatchSize(size) == [opt |-> "WithXBatchSize", size |-> size, ino |-> 0]
WithXStartIno(ino) == [opt |-> "WithXStartIno", size |-> 0, ino |-> ino]

ApplyXOption(qq, o) ==
    CASE o.opt = "WithXBatchSize" -> [qq EXCEPT !.batch = o.size]
      [] o.opt = "WithXStartIno" -> [qq EXCEPT !.next = o.ino]

RECURSIVE ApplyXOptions(_, _)
ApplyXOptions(qq, opts) ==
    IF opts = <<>> THEN qq
    ELSE ApplyXOptions(ApplyXOption(qq, Head(opts)), Tail(opts))

ZeroXattrQuery == [next |-> 0, batch |-> 0, buflen |-> 0, done |-> FALSE]

NewXattrQuery(opts) ==
    LET qq == ApplyXOptions([ZeroXattrQuery EXCEPT !.batch = defaultXBatch], opts)
    IN  [qq EXCEPT !.buflen = sizeofU64 * qq.batch]

XattrRequest(qq) ==
    [Next_ino |-> qq.next, Last_ino |-> max64, Nr_inodes |-> qq.batch, Output_flags |-> 0]

RECURSIVE SortInts(_)
SortInts(S) ==
    IF S = {} THEN <<>>
    ELSE LET m == CHOOSE k \in S : \A o \in S : k <= o
         IN  <<m>> \o SortInts(S \ {m})

\* IOCSEARCHXATTRS, kernel side: the inodes carrying the xattr with
\* Next_ino <= ino <= Last_ino, in order.  A call returns none of them or as
\* many as Nr_inodes allows, and may raise the END flag only when nothing is
\* left after its batch.
XattrResponses(inos, req) ==
    LET all == SortInts({i \in inos : req.Next_ino <= i /\ i <= req.Last_ino})
        full == Take(all, req.Nr_inodes)
        answers == {[ents |-> e, flags |-> f] :
                      e \in {<<>>, full}, f \in {0, SEARCHXATTRSOFLAGEND}}
        honest == {a \in answers :
                     HasFlag(a.flags, SEARCHXATTRSOFLAGEND) => Len(a.ents) = Len(all)}
    IN  {[c |-> scoutfsctl(-1, e), ents |-> <<>>, flags |-> 0] : e \in Errnos}
        \cup {[c |-> scoutfsctl(Len(a.ents), "0"), ents |-> a.ents, flags |-> a.flags] :
                a \in honest}
        \cup {[c |-> scoutfsctl(req.Nr_inodes + 1, "0"), ents |-> full, flags |-> f] :
                f \in {0, SEARCHXATTRSOFLAGEND}}

XattrQueryNextSkips(qq) == qq.done

XattrQueryNextDoneOnEmpty(qq, resp) ==
    IF resp.c.err # NoErr THEN [xq |-> qq, ret |-> RetErr(resp.c.err)]
    ELSE LET q1 == [qq EXCEPT !.done =
                       HasFlag(resp.flags, SEARCHXATTRSOFLAGEND) \/ resp.c.n = 0]
         IN  IF resp.c.n = 0 THEN [xq |-> q1, ret |-> RetNil]
             ELSE IF DecodeFails(resp.c.n, sizeofU64, qq.buflen)
                  THEN [xq |-> q1, ret |-> RetErr(ErrEOF)]
             ELSE [xq |-> [q1 EXCEPT !.next = Inc64(resp.ents[resp.c.n])],
                   ret |-> RetVal(SubSeq(resp.ents, 1, resp.c.n))]

XattrQueryNextResult(qq, resp) ==
    IF resp.c.err # NoErr THEN [xq |-> qq, ret |-> RetErr(resp.c.err)]
    ELSE LET q1 == IF HasFlag(resp.flags, SEARCHXATTRSOFLAGEND)
                   THEN [qq EXCEPT !.done = TRUE] ELSE qq
         IN  IF resp.c.n = 0 THEN [xq |-> q1, ret |-> RetNil]
             ELSE IF DecodeFails(resp.c.n, sizeofU64, qq.buflen)
                  THEN [xq |-> q1, ret |-> RetErr(ErrEOF)]
             ELSE [xq |-> [q1 EXCEPT !.next = Inc64(resp.ents[resp.c.n])],
                   ret |-> RetVal(SubSeq(resp.ents, 1, resp.c.n))]

XattrQueryNext ==
    /\ obj.kind = "XattrQuery"
    /\ Len(acc) < MaxAcc
    /\ IF XattrQueryNextSkips(xq)
       THEN /\ hist' = [op |-> "XattrQuery.Next", pre |-> xq, reqs |-> <<>>,
                        resps |-> <<>>, ret |-> RetNil]
            /\ UNCHANGED <<xq, acc>>
       ELSE \E resp \in XattrResponses(kern, XattrRequest(xq)) :
              LET r == XattrQueryNextResult(xq, resp)
              IN  /\ xq' = r.xq
                  /\ acc' = acc \o r.ret.val
                  /\ hist' = [op |-> "XattrQuery.Next", pre |-> xq,
                              reqs |-> <<XattrRequest(xq)>>, resps |-> <<resp>>,
                              ret |-> r.ret]
    /\ UNCHANGED <<obj, q, w, tg, qt, kern, entry, probe, call, rset, cursors>>

(***************************************************************************)
(* TotalsGroup: the xattr totals that share the first two id words.        *)
(***************************************************************************)
sizeofxattrTotal == 40

xattrTotal(name, total, count) == [Name |-> name, Total |-> total, Count |-> count]

\* the XattrTotal Next makes of a kernel entry
XattrTotal(e) == [Total |-> e.Total, Count |-> e.Count, ID |-> e.Name]

ZeroTotalsGroup ==
    [pos |-> <<0, 0, 0>>, id1 |-> 0, id2 |-> 0, count |-> 0, buflen |-> 0, done |-> FALSE]

NewTotalsGroup(id1, id2, count) ==
    [pos |-> <<id1, id2, 0>>, id1 |-> id1, id2 |-> id2, count |-> count,
     buflen |-> sizeofxattrTotal * count, done |-> FALSE]

TotalsRequest(t) ==
    [Pos_name |-> t.pos, Totals_bytes |-> sizeofxattrTotal * t.count]

\* the order of the totals index: the three name words, left to right
NameLess(a, b) ==
    \/ a[1] < b[1]
    \/ a[1] = b[1] /\ a[2] < b[2]
    \/ a[1] = b[1] /\ a[2] = b[2] /\ a[3] < b[3]

RECURSIVE SortTotals(_)
SortTotals(S) ==
    IF S = {} THEN <<>>
    ELSE LET m == CHOOSE k \in S : \A o \in S : o = k \/ NameLess(k.Name, o.Name)
         IN  <<m>> \o SortTotals(S \ {m})

\* IOCREADXATTRTOTALS, kernel side: the totals with name >= Pos_name, in
\* name order, as many as fit in Totals_bytes
ReadTotals(totals, req) ==
    Take(SortTotals({e \in totals : e.Name = req.Pos_name \/ NameLess(req.Pos_name, e.Name)}),
         req.Totals_bytes \div sizeofxattrTotal)

TotalsResponses(totals, req) ==
    LET ents == ReadTotals(totals, req)
    IN  {[c |-> scoutfsctl(-1, e), ents |-> <<>>] : e \in Errnos}
        \cup {[c |-> scoutfsctl(Len(ents), "0"), ents |-> ents]}

TotalsGroupNextSkips(t) == t.done

\* the index of the first entry outside the group, or 0
FirstForeign(t, ents) ==
    LET bad == {i \in 1..Len(ents) : ents[i].Name[1] # t.id1 \/ ents[i].Name[2] # t.id2}
    IN  IF bad = {} THEN 0 ELSE CHOOSE i \in bad : \A j \in bad : i <= j

TotalsGroupNextNoFilter(t, resp) ==
    IF resp.c.err # NoErr THEN [tg |-> t, ret |-> RetErr(resp.c.err)]
    ELSE IF resp.c.n = 0 THEN [tg |-> [t EXCEPT !.done = TRUE], ret |-> RetNil]
    ELSE LET n == resp.c.n
             name == resp.ents[n].Name
             t1 == [t EXCEPT !.pos = <<name[1], name[2], Inc64(name[3])>>,
                             !.done = (name[3] = max64) \/ t.done]
         IN  [tg |-> t1, ret |-> RetVal([j \in 1..n |-> XattrTotal(resp.ents[j])])]

TotalsGroupNextNoAdvance(t, resp) ==
    IF resp.c.err # NoErr THEN [tg |-> t, ret |-> RetErr(resp.c.err)]
    ELSE IF resp.c.n = 0 THEN [tg |-> [t EXCEPT !.done = TRUE], ret |-> RetNil]
    ELSE LET n == resp.c.n
             name == resp.ents[n].Name
             t1 == [t EXCEPT !.pos = name, !.done = (name[3] = max64) \/ t.done]
             ents == SubSeq(resp.ents, 1, n)
             i == FirstForeign(t, ents)
         IN  IF i = 0
             THEN [tg |-> t1, ret |-> RetVal([j \in 1..n |-> XattrTotal(ents[j])])]
             ELSE [tg |-> [t1 EXCEPT !.done = TRUE],
                   ret |-> RetVal([j \in 1..(i - 1) |-> XattrTotal(ents[j])])]

TotalsGroupNextNoExhaust(t, resp) ==
    IF resp.c.err # NoErr THEN [tg |-> t, ret |-> RetErr(resp.c.err)]
    ELSE IF resp.c.n = 0 THEN [tg |-> [t EXCEPT !.done = TRUE], ret |-> RetNil]
    ELSE LET n == resp.c.n
             name == resp.ents[n].Name
             t1 == [t EXCEPT !.pos = <<name[1], name[2], Inc64(name[3])>>]
             ents == SubSeq(resp.ents, 1, n)
             i == FirstForeign(t, ents)
         IN  IF i = 0
             THEN [tg |-> t1, ret |-> RetVal([j \in 1..n |-> XattrTotal(ents[j])])]
             ELSE [tg |-> [t1 EXCEPT !.done = TRUE],
                   ret |-> RetVal([j \in 1..(i - 1) |-> XattrTotal(ents[j])])]

TotalsGroupNextResult(t, resp) ==
    IF resp.c.err # NoErr THEN [tg |-> t, ret |-> RetErr(resp.c.err)]
    ELSE IF resp.c.n = 0 THEN [tg |-> [t EXCEPT !.done = TRUE], ret |-> RetNil]
    ELSE LET n == resp.c.n
             name == resp.ents[n].Name
             t1 == [t EXCEPT !.pos = <<name[1], name[2], Inc64(name[3])>>,
                             !.done = (name[3] = max64) \/ t.done]
             ents == SubSeq(resp.ents, 1, n)
             i == FirstForeign(t, ents)
         IN  IF i = 0
             THEN [tg |-> t1, ret |-> RetVal([j \in 1..n |-> XattrTotal(ents[j])])]
             ELSE [tg |-> [t1 EXCEPT !.done = TRUE],
                   ret |-> RetVal([j \in 1..(i - 1) |-> XattrTotal(ents[j])])]

TotalsGroupNext ==
    /\ obj.kind = "TotalsGroup"
    /\ Len(acc) < MaxAcc
    /\ IF TotalsGroupNextSkips(tg)
       THEN /\ hist' = [op |-> "TotalsGroup.Next", pre |-> tg, reqs |-> <<>>,
                        resps |-> <<>>, ret |-> RetNil]
            /\ UNCHANGED <<tg, acc>>
       ELSE \E resp \in TotalsResponses(kern, TotalsRequest(tg)) :
              LET r == TotalsGroupNextResult(tg, resp)
              IN  /\ tg' = r.tg
                  /\ acc' = acc \o r.ret.val
                  /\ hist' = [op |-> "TotalsGroup.Next", pre |-> tg,
                              reqs |-> <<TotalsRequest(tg)>>, resps |-> <<resp>>,
                              ret |-> r.ret]
    /\ UNCHANGED <<obj, q, w, xq, qt, kern, entry, probe, call, rset, cursors>>

TotalsGroupResetKeepsDone ==
    /\ obj.kind = "TotalsGroup"
    /\ tg' = [tg EXCEPT !.pos = <<tg.id1, tg.id2, 0>>]
    /\ acc' = <<>>
    /\ hist' = [op |-> "TotalsGroup.Reset", pre |-> tg, reqs |-> <<>>, resps |-> <<>>,
                ret |-> RetNil]
    /\ UNCHANGED <<obj, q, w, xq, qt, kern, entry, probe, call, rset, cursors>>

TotalsGroupReset ==
    /\ obj.kind = "TotalsGroup"
    /\ tg' = [tg EXCEPT !.done = FALSE, !.pos = <<tg.id1, tg.id2, 0>>]
    /\ acc' = <<>>
    /\ hist' = [op |-> "TotalsGroup.Reset", pre |-> tg, reqs |-> <<>>, resps |-> <<>>,
                ret |-> RetNil]
    /\ UNCHANGED <<obj, q, w, xq, qt, kern, entry, probe, call, rset, cursors>>

(***************************************************************************)
(* ReadXattrTotals: the lookup of one total by its three id words.         *)
(***************************************************************************)
ZeroXattrTotal == [Total |-> 0, Count |-> 0, ID |-> <<0, 0, 0>>]

ReadXattrTotalsRequest(id1, id2, id3) ==
    [Pos_name |-> <<id1, id2, id3>>, Totals_bytes |-> sizeofxattrTotal]

ReadXattrTotalsTwoWords(id1, id2, id3, resp) ==
    IF resp.c.err # NoErr
    THEN [val |-> ZeroXattrTotal, isnil |-> FALSE, err |-> resp.c.err]
    ELSE IF \/ resp.c.n = 0
            \/ resp.ents[1].Name[1] # id1
            \/ resp.ents[1].Name[2] # id2
    THEN [val |-> ZeroXattrTotal, isnil |-> FALSE, err |-> NoErr]
    ELSE [val |-> [ZeroXattrTotal EXCEPT !.Total = resp.ents[1].Total,
                                         !.Count = resp.ents[1].Count],
          isnil |-> FALSE, err |-> NoErr]

\* what ReadXattrTotals returns on the kernel's answer
ReadXattrTotalsResult(id1, id2, id3, resp) ==
    IF resp.c.err # NoErr
    THEN [val |-> ZeroXattrTotal, isnil |-> FALSE, err |-> resp.c.err]
    ELSE IF \/ resp.c.n = 0
            \/ resp.ents[1].Name[1] # id1
            \/ resp.ents[1].Name[2] # id2
            \/ resp.ents[1].Name[3] # id3
    THEN [val |-> ZeroXattrTotal, isnil |-> FALSE, err |-> NoErr]
    ELSE [val |-> [ZeroXattrTotal EXCEPT !.Total = resp.ents[1].Total,
                                         !.Count = resp.ents[1].Count],
          isnil |-> FALSE, err |-> NoErr]

ReadXattrTotals ==
    /\ obj.kind = "ReadXattrTotals"
    /\ \E id1 \in U64, id2 \in U64, id3 \in U64 :
         LET req == ReadXattrTotalsRequest(id1, id2, id3)
         IN  \E resp \in TotalsResponses(kern, req) :
               hist' = [op |-> "ReadXattrTotals", pre |-> <<id1, id2, id3>>,
                        reqs |-> <<req>>, resps |-> <<resp>>,
                        ret |-> ReadXattrTotalsResult(id1, id2, id3, resp)]
    /\ UNCHANGED <<obj, q, w, xq, tg, qt, kern, acc, entry, probe, call, rset, cursors>>

(***************************************************************************)
(* Back-references: the byte stream of IOCGETREFERRINGENTRIES and its      *)
(* decoding by parseDent and parseDents.                                   *)
(***************************************************************************)
direntSize == 29
DIRENTFLAGLAST == 1

ErrUnexpectedEOF == "unexpected EOF"

\* n bytes of v, little endian
RECURSIVE LE(_, _)
LE(v, n) == IF n = 0 THEN <<>> ELSE <<v % 256>> \o LE(v \div 256, n - 1)

\* binary.LittleEndian on the bytes of one field
RECURSIVE FromLE(_)
FromLE(bs) == IF bs = <<>> THEN 0 ELSE bs[1] + 256 * FromLE(Tail(bs))

Zeros(n) == [i \in 1..n |-> 0]

\* a back-reference as the kernel holds it: the entry Name of directory
\* Dir_ino at position Dir_pos, written with Pad bytes after the name
DirRef(dino, dpos, dtype, name, pad) ==
    [Dir_ino |-> dino, Dir_pos |-> dpos, D_type |-> dtype, Name |-> name, Pad |-> pad]

EntryBytes(ref) == direntSize + Len(ref.Name) + ref.Pad

\* the record the kernel writes for a back-reference of inode ino
EncodeDirent(ino, ref, flags) ==
    LE(ref.Dir_ino, 8) \o LE(ref.Dir_pos, 8) \o LE(ino, 8) \o LE(EntryBytes(ref), 2)
    \o <<flags, ref.D_type, Len(ref.Name)>> \o ref.Name \o Zeros(ref.Pad)

\* binary.Read of the 29 header bytes at offset off into a dirent
dirent(b, off) ==
    [Dir_ino     |-> FromLE(SubSeq(b, off + 1, off + 8)),
     Dir_pos     |-> FromLE(SubSeq(b, off + 9, off + 16)),
     Ino         |-> FromLE(SubSeq(b, off + 17, off + 24)),
     Entry_bytes |-> FromLE(SubSeq(b, off + 25, off + 26)),
     Flags       |-> b[off + 27],
     D_type      |-> b[off + 28],
     Name_len    |-> b[off + 29]]

Parent(ino, pos, type, ent) == [Ino |-> ino, Pos |-> pos, Type |-> type, Ent |-> ent]

ZeroParent == Parent(0, 0, 0, <<>>)

\* a failed parseDent: the reader has been drained
DentErr(b, e) == [parent |-> ZeroParent, isLast |-> FALSE, err |-> e, off |-> Len(b)]

parseDentNoPad(b, off) ==
    LET avail == Len(b) - off
    IN  IF avail = 0 THEN DentErr(b, ErrEOF)
        ELSE IF avail < direntSize THEN DentErr(b, ErrUnexpectedEOF)
        ELSE LET dent == dirent(b, off)
             IN  IF avail - direntSize < dent.Name_len THEN DentErr(b, ErrEOF)
                 ELSE [parent |-> Parent(dent.Dir_ino, dent.Dir_pos, dent.D_type,
                                         SubSeq(b, off + direntSize + 1,
                                                off + direntSize + dent.Name_len)),
                       isLast |-> HasFlag(dent.Flags, DIRENTFLAGLAST),
                       err |-> NoErr,
                       off |-> off + direntSize + dent.Name_len]

\* parseDent on a reader of b standing at offset off: the header, Name_len
\* name bytes, then pad bytes read one at a time
parseDent(b, off) ==
    LET avail == Len(b) - off
    IN  IF avail = 0 THEN DentErr(b, ErrEOF)
        ELSE IF avail < direntSize THEN DentErr(b, ErrUnexpectedEOF)
        ELSE LET dent == dirent(b, off)
                 pad == dent.Entry_bytes - (direntSize + dent.Name_len)
                 used == direntSize + dent.Name_len + (IF pad > 0 THEN pad ELSE 0)
             IN  IF avail - direntSize < dent.Name_len THEN DentErr(b, ErrEOF)
                 ELSE IF avail < used THEN DentErr(b, ErrEOF)
                 ELSE [parent |-> Parent(dent.Dir_ino, dent.Dir_pos, dent.D_type,
                                         SubSeq(b, off + direntSize + 1,
                                                off + direntSize + dent.Name_len)),
                       isLast |-> HasFlag(dent.Flags, DIRENTFLAGLAST),
                       err |-> NoErr,
                       off |-> off + used]

RECURSIVE parseDentsIgnoreLast(_, _, _)
parseDentsIgnoreLast(b, off, parents) ==
    LET r == parseDent(b, off)
    IN  IF r.err = ErrEOF THEN [parents |-> parents, isLast |-> FALSE, err |-> NoErr]
        ELSE IF r.err # NoErr THEN [parents |-> <<>>, isLast |-> FALSE, err |-> r.err]
        ELSE IF Len(b) - r.off = 0
        THEN [parents |-> Append(parents, r.parent), isLast |-> r.isLast, err |-> NoErr]
        ELSE parseDentsIgnoreLast(b, r.off, Append(parents, r.parent))

\* the loop of parseDents with the reader at offset off and parents decoded
\* so far: io.EOF ends the loop quietly, any other error fails the call
RECURSIVE parseDentsFrom(_, _, _)
parseDentsFrom(b, off, parents) ==
    LET r == parseDent(b, off)
    IN  IF r.err = ErrEOF THEN [parents |-> parents, isLast |-> FALSE, err |-> NoErr]
        ELSE IF r.err # NoErr THEN [parents |-> <<>>, isLast |-> FALSE, err |-> r.err]
        ELSE IF r.isLast
        THEN [parents |-> Append(parents, r.parent), isLast |-> TRUE, err |-> NoErr]
        ELSE IF Len(b) - r.off = 0
        THEN [parents |-> Append(parents, r.parent), isLast |-> FALSE, err |-> NoErr]
        ELSE parseDentsFrom(b, r.off, Append(parents, r.parent))

parseDents(b) == parseDentsFrom(b, 0, <<>>)

\* parseDent on the reader the client holds
ParseDent ==
    /\ call.fn = "bytes.Reader"
    /\ ~(hist.op = "parseDent" /\ hist.ret.err # NoErr)
    /\ LET r == parseDent(call.b, call.off)
       IN  /\ call' = [call EXCEPT !.off = r.off]
           /\ acc' = IF r.err = NoErr THEN Append(acc, r.parent) ELSE acc
           /\ hist' = [op |-> "parseDent", pre |-> call, reqs |-> <<>>, resps |-> <<>>,
                       ret |-> [val |-> <<r.parent>>, isnil |-> FALSE, err |-> r.err,
                                isLast |-> r.isLast]]
    /\ UNCHANGED <<obj, q, w, xq, tg, qt, kern, entry, probe, rset, cursors>>

\* parseDents on the whole buffer, through a reader of its own
ParseDents ==
    /\ call.fn = "bytes.Reader"
    /\ hist.op = "New"
    /\ LET r == parseDents(call.b)
       IN  hist' = [op |-> "parseDents", pre |-> call, reqs |-> <<>>, resps |-> <<>>,
                    ret |-> [val |-> r.parents, isnil |-> r.parents = <<>>,
                             err |-> r.err, isLast |-> r.isLast]]
    /\ UNCHANGED <<obj, q, w, xq, tg, qt, kern, acc, entry, probe, call, rset, cursors>>

(***************************************************************************)
(* GetParents: the loop over IOCGETREFERRINGENTRIES.                       *)
(***************************************************************************)
getparentBufsize == 96
MaxCalls == 3

getReferringEntries(ino, b) ==
    [Ino |-> ino, Dir_ino |-> 0, Dir_pos |-> 0, Entries_bytes |-> Len(b)]

\* the order of the back-references of an inode: (Dir_ino, Dir_pos)
RefLess(a, b) ==
    \/ a.Dir_ino < b.Dir_ino
    \/ a.Dir_ino = b.Dir_ino /\ a.Dir_pos < b.Dir_pos

RECURSIVE SortRefs(_)
SortRefs(S) ==
    IF S = {} THEN <<>>
    ELSE LET m == CHOOSE k \in S : \A o \in S : o = k \/ RefLess(k, o)
         IN  <<m>> \o SortRefs(S \ {m})

\* the records of refs[i..], the last of the inode flagged, while they fit in room
RECURSIVE EncodeRefs(_, _, _, _)
EncodeRefs(ino, refs, i, room) ==
    IF i > Len(refs) \/ EntryBytes(refs[i]) > room THEN <<>>
    ELSE EncodeDirent(ino, refs[i], IF i = Len(refs) THEN DIRENTFLAGLAST ELSE 0)
         \o EncodeRefs(ino, refs, i + 1, room - EntryBytes(refs[i]))

RECURSIVE CountRefs(_, _, _)
CountRefs(refs, i, room) ==
    IF i > Len(refs) \/ EntryBytes(refs[i]) > room THEN 0
    ELSE 1 + CountRefs(refs, i + 1, room - EntryBytes(refs[i]))

\* IOCGETREFERRINGENTRIES, kernel side: the back-references at or after
\* (Dir_ino, Dir_pos), in order, as many whole records as fit, written over
\* the start of the buffer; a buffer with no room for the next one is refused
ReferringResponses(links, req, b) ==
    LET from == [Dir_ino |-> req.Dir_ino, Dir_pos |-> req.Dir_pos]
        refs == SortRefs({l \in links : ~RefLess(l, from)})
        n == CountRefs(refs, 1, req.Entries_bytes)
        out == EncodeRefs(req.Ino, refs, 1, req.Entries_bytes)
    IN  {[c |-> scoutfsctl(-1, e), b |-> b] : e \in Errnos}
        \cup (IF refs # <<>> /\ n = 0 THEN {}
              ELSE {[c |-> scoutfsctl(n, "0"),
                     b |-> out \o SubSeq(b, Len(out) + 1, Len(b))]})

\* the Go slice a function returns: nil when nothing was appended
RetSlice(s) == [val |-> s, isnil |-> s = <<>>, err |-> NoErr]

\* one turn of the loop of GetParents on the kernel's answer
GetParentsTurn(c, resp) ==
    IF resp.c.err # NoErr
    THEN [call |-> [c EXCEPT !.pc = "done", !.b = resp.b], ret |-> RetErr(resp.c.err)]
    ELSE IF resp.c.n = 0
    THEN [call |-> [c EXCEPT !.pc = "done", !.b = resp.b], ret |-> RetSlice(c.parents)]
    ELSE LET pd == parseDents(resp.b)
         IN  IF pd.err # NoErr
             THEN [call |-> [c EXCEPT !.pc = "done", !.b = resp.b], ret |-> RetErr(pd.err)]
             ELSE IF pd.isLast
             THEN [call |-> [c EXCEPT !.pc = "done", !.b = resp.b,
                                      !.parents = c.parents \o pd.parents],
                   ret |-> RetSlice(c.parents \o pd.parents)]
             ELSE [call |-> [c EXCEPT !.b = resp.b, !.parents = c.parents \o pd.parents],
                   ret |-> RetNil]

\* GetParents as it enters its loop: b is the caller's buffer or, for a nil
\* one, a fresh buffer of getparentBufsize bytes; gre filled in, no parents yet
GetParentsEntry(ino, b) ==
    [fn |-> "GetParents", pc |-> "loop", gre |-> getReferringEntries(ino, b), b |-> b,
     parents |-> <<>>, calls |-> 0]

GetParents ==
    /\ call.fn = "GetParents" /\ call.pc = "loop"
    /\ call.calls < MaxCalls
    /\ \E resp \in ReferringResponses(kern, call.gre, call.b) :
         LET r == GetParentsTurn([call EXCEPT !.calls = call.calls + 1], resp)
         IN  /\ call' = r.call
             /\ hist' = [op |-> "GetParents", pre |-> call, reqs |-> <<call.gre>>,
                         resps |-> <<resp>>, ret |-> r.ret]
    /\ UNCHANGED <<obj, q, w, xq, tg, qt, kern, acc, entry, probe, rset, cursors>>

(***************************************************************************)
(* InoToPaths: the loop over IOCINOPATH.                                   *)
(***************************************************************************)
pathmax == 4

\* a link to the inode: the entry at Dir_pos of directory Dir_ino, and the
\* path it gives the inode
PathLink(dino, dpos, path) == [Dir_ino |-> dino, Dir_pos |-> dpos, Path |-> path]

inoPath(ino) == [Ino |-> ino, Dir_ino |-> 0, Dir_pos |-> 0]

ZeroInoPathResult == [DirIno |-> 0, DirPos |-> 0, PathSize |-> 0, Path |-> Zeros(pathmax)]

RECURSIVE TrimLeft(_)
TrimLeft(bs) == IF bs # <<>> /\ bs[1] = 0 THEN TrimLeft(Tail(bs)) ELSE bs

RECURSIVE TrimRight(_)
TrimRight(bs) ==
    IF bs # <<>> /\ bs[Len(bs)] = 0 THEN TrimRight(SubSeq(bs, 1, Len(bs) - 1)) ELSE bs

\* bytes.Trim(b, "\x00")
TrimNul(bs) == TrimRight(TrimLeft(bs))

\* IOCINOPATH, kernel side: the first link at or after (Dir_ino, Dir_pos),
\* its path and terminating NUL written into the result; ENOENT when
\* there is none
InoPathResponses(links, req, res) ==
    LET refs == SortRefs({l \in links : ~RefLess(l, req)})
    IN  {[c |-> scoutfsctl(-1, e), res |-> res] : e \in Errnos}
        \cup (IF refs = <<>>
              THEN {[c |-> scoutfsctl(-1, "ENOENT"), res |-> res]}
              ELSE LET out == refs[1].Path \o <<0>>
                   IN  {[c |-> scoutfsctl(0, "0"),
                         res |-> [DirIno |-> refs[1].Dir_ino, DirPos |-> refs[1].Dir_pos,
                                  PathSize |-> Len(out),
                                  Path |-> out \o SubSeq(res.Path, Len(out) + 1,
                                                         Len(res.Path))]]})

InoToPathsTurnPartialOnError(c, resp) ==
    IF resp.c.err = errENOENT
    THEN [call |-> [c EXCEPT !.pc = "done", !.res = resp.res], ret |-> RetSlice(c.paths)]
    ELSE IF resp.c.err # NoErr
    THEN [call |-> [c EXCEPT !.pc = "done", !.res = resp.res],
          ret |-> [val |-> c.paths, isnil |-> c.paths = <<>>, err |-> resp.c.err]]
    ELSE LET paths == Append(c.paths, TrimNul(SubSeq(resp.res.Path, 1, resp.res.PathSize)))
             dpos == Inc64(resp.res.DirPos)
             dino == IF dpos = 0 THEN Inc64(resp.res.DirIno) ELSE resp.res.DirIno
             c1 == [c EXCEPT !.res = resp.res, !.paths = paths,
                             !.ip.Dir_ino = dino, !.ip.Dir_pos = dpos]
         IN  IF dpos = 0 /\ dino = 0
             THEN [call |-> [c1 EXCEPT !.pc = "done"], ret |-> RetSlice(paths)]
             ELSE [call |-> c1, ret |-> RetNil]

InoToPathsTurnEnoentFails(c, resp) ==
    IF resp.c.err # NoErr
    THEN [call |-> [c EXCEPT !.pc = "done", !.res = resp.res], ret |-> RetErr(resp.c.err)]
    ELSE LET paths == Append(c.paths, TrimNul(SubSeq(resp.res.Path, 1, resp.res.PathSize)))
             dpos == Inc64(resp.res.DirPos)
             dino == IF dpos = 0 THEN Inc64(resp.res.DirIno) ELSE resp.res.DirIno
             c1 == [c EXCEPT !.res = resp.res, !.paths = paths,
                             !.ip.Dir_ino = dino, !.ip.Dir_pos = dpos]
         IN  IF dpos = 0 /\ dino = 0
             THEN [call |-> [c1 EXCEPT !.pc = "done"], ret |-> RetSlice(paths)]
             ELSE [call |-> c1, ret |-> RetNil]

InoToPathsTurnNoCarry(c, resp) ==
    IF resp.c.err = errENOENT
    THEN [call |-> [c EXCEPT !.pc = "done", !.res = resp.res], ret |-> RetSlice(c.paths)]
    ELSE IF resp.c.err # NoErr
    THEN [call |-> [c EXCEPT !.pc = "done", !.res = resp.res], ret |-> RetErr(resp.c.err)]
    ELSE LET paths == Append(c.paths, TrimNul(SubSeq(resp.res.Path, 1, resp.res.PathSize)))
             dpos == Inc64(resp.res.DirPos)
             dino == resp.res.DirIno
             c1 == [c EXCEPT !.res = resp.res, !.paths = paths,
                             !.ip.Dir_ino = dino, !.ip.Dir_pos = dpos]
         IN  IF dpos = 0 /\ dino = 0
             THEN [call |-> [c1 EXCEPT !.pc = "done"], ret |-> RetSlice(paths)]
             ELSE [call |-> c1, ret |-> RetNil]

\* one turn of the loop of InoToPaths on the kernel's answer
InoToPathsTurn(c, resp) ==
    IF resp.c.err = errENOENT
    THEN [call |-> [c EXCEPT !.pc = "done", !.res = resp.res], ret |-> RetSlice(c.paths)]
    ELSE IF resp.c.err # NoErr
    THEN [call |-> [c EXCEPT !.pc = "done", !.res = resp.res], ret |-> RetErr(resp.c.err)]
    ELSE LET paths == Append(c.paths, TrimNul(SubSeq(resp.res.Path, 1, resp.res.PathSize)))
             dpos == Inc64(resp.res.DirPos)
             dino == IF dpos = 0 THEN Inc64(resp.res.DirIno) ELSE resp.res.DirIno
             c1 == [c EXCEPT !.res = resp.res, !.paths = paths,
                             !.ip.Dir_ino = dino, !.ip.Dir_pos = dpos]
         IN  IF dpos = 0 /\ dino = 0
             THEN [call |-> [c1 EXCEPT !.pc = "done"], ret |-> RetSlice(paths)]
             ELSE [call |-> c1, ret |-> RetNil]

\* InoToPaths as it enters its loop
InoToPathsEntry(ino) ==
    [fn |-> "InoToPaths", pc |-> "loop", ip |-> inoPath(ino), res |-> ZeroInoPathResult,
     paths |-> <<>>]

InoToPaths ==
    /\ call.fn = "InoToPaths" /\ call.pc = "loop"
    /\ \E resp \in InoPathResponses(kern, call.ip, call.res) :
         LET r == InoToPathsTurn(call, resp)
         IN  /\ call' = r.call
             /\ hist' = [op |-> "InoToPaths", pre |-> call, reqs |-> <<call.ip>>,
                         resps |-> <<resp>>, ret |-> r.ret]
    /\ UNCHANGED <<obj, q, w, xq, tg, qt, kern, acc, entry, probe, rset, cursors>>

(***************************************************************************)
(* GetDF: IOCSTATFSMORE, then IOCALLOCDETAIL into a buffer that is doubled *)
(* while the kernel answers EOVERFLOW.                                     *)
(***************************************************************************)
dfBatchCount == 1
metaFlag == 1
sizeofallocDetailEntry == 24

\* the largest entry count make([]byte, 24*nr) can be asked for: beyond it
\* the runtime panics (len out of range), long before nr itself wraps
maxAllocEntries == 4

errEOVERFLOW == "EOVERFLOW"

\* fmt.Errorf("<what>: %v", err)
Errorf(what, e) == <<what, e>>

allocDetailEntry(id, blocks, type, flags) ==
    [Id |-> id, Blocks |-> blocks, Type |-> type, Flags |-> flags]

EncodeAllocDetailEntry(e) ==
    LE(e.Id, 8) \o LE(e.Blocks, 8) \o <<e.Type, e.Flags>> \o Zeros(6)

RECURSIVE EncodeAllocDetail(_, _, _)
EncodeAllocDetail(ents, i, n) ==
    IF i > n THEN <<>>
    ELSE EncodeAllocDetailEntry(ents[i]) \o EncodeAllocDetail(ents, i + 1, n)

\* binary.Read of entry i (from 1) of the buffer into an allocDetailEntry
DecodeAllocDetailEntry(buf, i) ==
    LET off == (i - 1) * sizeofallocDetailEntry
    IN  allocDetailEntry(FromLE(SubSeq(buf, off + 1, off + 8)),
                         FromLE(SubSeq(buf, off + 9, off + 16)),
                         buf[off + 17], buf[off + 18])

DiskUsage(tm, fm, td, fd) ==
    [TotalMetaBlocks |-> tm, FreeMetaBlocks |-> fm, TotalDataBlocks |-> td,
     FreeDataBlocks |-> fd]

ZeroDiskUsage == DiskUsage(0, 0, 0, 0)

allocDetail(nr) == [Nr |-> nr]

\* IOCSTATFSMORE, kernel side
StatfsResponses(fs) ==
    {[c |-> scoutfsctl(-1, e), stfs |-> [Total_meta_blocks |-> 0, Total_data_blocks |-> 0]] :
       e \in Errnos}
    \cup {[c |-> scoutfsctl(0, "0"), stfs |-> fs.stfs]}

\* IOCALLOCDETAIL, kernel side: all the allocators when they fit in Nr
\* entries; EOVERFLOW when they do not, or when more of them have appeared
\* than the kernel can report, with the entries that did fit already written.
\* Only the entries the returned count covers are the answer: what the call
\* leaves in the entries past them is the kernel's business, untouched or not.
AllocDetailResponses(fs, req, buf) ==
    LET n == Len(fs.ents)
        part == EncodeAllocDetail(fs.ents, 1, Min(n, req.Nr))
        written == part \o SubSeq(buf, Len(part) + 1, Len(buf))
        stale == EncodeAllocDetailEntry(allocDetailEntry(0, 1, 0, metaFlag))
        past == part \o [i \in 1..(Len(buf) - Len(part)) |->
                            stale[((i - 1) % sizeofallocDetailEntry) + 1]]
    IN  {[c |-> scoutfsctl(-1, e), buf |-> buf] : e \in Errnos}
        \cup {[c |-> scoutfsctl(-1, errEOVERFLOW), buf |-> b] : b \in {buf, written}}
        \cup (IF n <= req.Nr
              THEN {[c |-> scoutfsctl(n, "0"), buf |-> b] : b \in {written, past}}
              ELSE {})

RECURSIVE FreeBlocksOf(_, _, _)
FreeBlocksOf(buf, n, meta) ==
    IF n = 0 THEN 0
    ELSE LET ade == DecodeAllocDetailEntry(buf, n)
         IN  (FreeBlocksOf(buf, n - 1, meta)
              + (IF HasFlag(ade.Flags, metaFlag) = meta THEN ade.Blocks ELSE 0))
             % (max64 + 1)

FreeBlocksWholeBuffer(buf, n, meta) ==
    FreeBlocksOf(buf, Len(buf) \div sizeofallocDetailEntry, meta)

\* the free blocks of entries 1..n of the buffer: meta and data
RECURSIVE FreeBlocks(_, _, _)
FreeBlocks(buf, n, meta) ==
    IF n = 0 THEN 0
    ELSE LET ade == DecodeAllocDetailEntry(buf, n)
         IN  (FreeBlocks(buf, n - 1, meta)
              + (IF HasFlag(ade.Flags, metaFlag) = meta THEN ade.Blocks ELSE 0))
             % (max64 + 1)

RetDF(v, e) == [val |-> v, isnil |-> FALSE, err |-> e]

\* GetDF up to its first call
GetDFEntry == [fn |-> "GetDF", pc |-> "statfs", stfs |-> [Total_meta_blocks |-> 0,
               Total_data_blocks |-> 0], nr |-> 0, buf |-> <<>>, overflows |-> 0]

\* the statfs call of GetDF and, when it succeeds, the first buffer
GetDFStatfsResult(c, resp) ==
    IF resp.c.err # NoErr
    THEN [call |-> [c EXCEPT !.pc = "done"],
          ret |-> RetDF(ZeroDiskUsage, Errorf("statfs more", resp.c.err))]
    ELSE [call |-> [c EXCEPT !.pc = "loop", !.stfs = resp.stfs, !.nr = dfBatchCount,
                             !.buf = Zeros(sizeofallocDetailEntry * dfBatchCount)],
          ret |-> RetDF(ZeroDiskUsage, NoErr)]

GetDFTurnKeepsBuffer(c, resp) ==
    IF resp.c.err = errEOVERFLOW
    THEN IF c.nr * 2 > maxAllocEntries
         THEN [call |-> [c EXCEPT !.pc = "panic", !.nr = c.nr * 2,
                                  !.overflows = c.overflows + 1],
               ret |-> RetDF(ZeroDiskUsage, "panic: makeslice: len out of range")]
         ELSE [call |-> [c EXCEPT !.nr = c.nr * 2, !.overflows = c.overflows + 1,
                                  !.buf = resp.buf \o Zeros(sizeofallocDetailEntry * c.nr)],
               ret |-> RetDF(ZeroDiskUsage, NoErr)]
    ELSE IF resp.c.err # NoErr
    THEN [call |-> [c EXCEPT !.pc = "done", !.buf = resp.buf],
          ret |-> RetDF(ZeroDiskUsage, Errorf("alloc detail", resp.c.err))]
    ELSE IF DecodeFails(resp.c.n, sizeofallocDetailEntry, Len(resp.buf))
    THEN [call |-> [c EXCEPT !.pc = "done", !.buf = resp.buf],
          ret |-> RetDF(ZeroDiskUsage, Errorf("parse alloc detail results", ErrEOF))]
    ELSE [call |-> [c EXCEPT !.pc = "done", !.buf = resp.buf],
          ret |-> RetDF(DiskUsage(c.stfs.Total_meta_blocks,
                                  FreeBlocks(resp.buf, resp.c.n, TRUE),
                                  c.stfs.Total_data_blocks,
                                  FreeBlocks(resp.buf, resp.c.n, FALSE)), NoErr)]

\* one turn of the alloc-detail loop of GetDF and, when the call succeeds,
\* the summing of the entries that follows it
GetDFTurn(c, resp) ==
    IF resp.c.err = errEOVERFLOW
    THEN IF c.nr * 2 > maxAllocEntries
         THEN [call |-> [c EXCEPT !.pc = "panic", !.nr = c.nr * 2,
                                  !.overflows = c.overflows + 1],
               ret |-> RetDF(ZeroDiskUsage, "panic: makeslice: len out of range")]
         ELSE [call |-> [c EXCEPT !.nr = c.nr * 2, !.overflows = c.overflows + 1,
                                  !.buf = Zeros(sizeofallocDetailEntry * c.nr * 2)],
               ret |-> RetDF(ZeroDiskUsage, NoErr)]
    ELSE IF resp.c.err # NoErr
    THEN [call |-> [c EXCEPT !.pc = "done", !.buf = resp.buf],
          ret |-> RetDF(ZeroDiskUsage, Errorf("alloc detail", resp.c.err))]
    ELSE IF DecodeFails(resp.c.n, sizeofallocDetailEntry, Len(resp.buf))
    THEN [call |-> [c EXCEPT !.pc = "done", !.buf = resp.buf],
          ret |-> RetDF(ZeroDiskUsage, Errorf("parse alloc detail results", ErrEOF))]
    ELSE [call |-> [c EXCEPT !.pc = "done", !.buf = resp.buf],
          ret |-> RetDF(DiskUsage(c.stfs.Total_meta_blocks,
                                  FreeBlocks(resp.buf, resp.c.n, TRUE),
                                  c.stfs.Total_data_blocks,
                                  FreeBlocks(resp.buf, resp.c.n, FALSE)), NoErr)]

GetDFStatfs ==
    /\ call.fn = "GetDF" /\ call.pc = "statfs"
    /\ \E resp \in StatfsResponses(kern) :
         LET r == GetDFStatfsResult(call, resp)
         IN  /\ call' = r.call
             /\ hist' = [op |-> "GetDF.statfs", pre |-> call, reqs |-> <<>>,
                         resps |-> <<resp>>, ret |-> r.ret]
    /\ UNCHANGED <<obj, q, w, xq, tg, qt, kern, acc, entry, probe, rset, cursors>>

GetDFAllocDetail ==
    /\ call.fn = "GetDF" /\ call.pc = "loop"
    /\ \E resp \in AllocDetailResponses(kern, allocDetail(call.nr), call.buf) :
         LET r == GetDFTurn(call, resp)
         IN  /\ call' = r.call
             /\ hist' = [op |-> "GetDF.allocDetail", pre |-> call,
                         reqs |-> <<allocDetail(call.nr)>>, resps |-> <<resp>>,
                         ret |-> r.ret]
    /\ UNCHANGED <<obj, q, w, xq, tg, qt, kern, acc, entry, probe, rset, cursors>>

(***************************************************************************)
(* Quotas: the quota rule listing.                                         *)
(***************************************************************************)
quotaRule(val, limit, prio, op, rflags, source, nflags) ==
    [Name_val |-> val, Limit |-> limit, Prio |-> prio, Op |-> op, Rule_flags |-> rflags,
     Name_source |-> source, Name_flags |-> nflags]

\* the QuotaRule Next makes of a kernel rule
QuotaRule(r) ==
    [Op |-> r.Op, QuotaValue |-> r.Name_val, QuotaSource |-> r.Name_source,
     QuotaFlags |-> r.Name_flags, Limit |-> r.Limit, Prioirity |-> r.Prio,
     Flags |-> r.Rule_flags]

sizeofquotaRule == 48

ZeroQuotas == [iter |-> <<0, 0>>, count |-> 0, buflen |-> 0, done |-> FALSE]

\* GetQuotaRules, for count >= 1
GetQuotaRules(count) ==
    [iter |-> <<0, 0>>, count |-> count, buflen |-> sizeofquotaRule * count, done |-> FALSE]

QuotasRequest(qq) == [Iterator |-> qq.iter, Nr |-> qq.count]

\* IOCGETQUOTARULES, kernel side: the iterator is the kernel's own token for
\* how far the listing got; the call writes the next one into the request
IterOf(pos) == <<pos % (max64 + 1), pos \div (max64 + 1)>>
PosOf(iter) == iter[1] + iter[2] * (max64 + 1)

QuotaResponses(rules, req) ==
    LET from == PosOf(req.Iterator)
        ents == Take(SubSeq(rules, from + 1, Len(rules)), req.Nr)
    IN  {[c |-> scoutfsctl(-1, e), ents |-> <<>>, iter |-> req.Iterator] : e \in Errnos}
        \cup {[c |-> scoutfsctl(Len(ents), "0"), ents |-> ents,
               iter |-> IterOf(from + Len(ents))]}

QuotasNextKeepsIter(qq, resp) ==
    IF resp.c.err # NoErr THEN [qt |-> qq, ret |-> RetErr(resp.c.err)]
    ELSE IF resp.c.n = 0 THEN [qt |-> [qq EXCEPT !.done = TRUE], ret |-> RetNil]
    ELSE [qt |-> qq, ret |-> RetVal([j \in 1..resp.c.n |-> QuotaRule(resp.ents[j])])]

QuotasNextNeverSkips(qq) == FALSE

QuotasNextSkips(qq) == qq.done

QuotasNextDoneOnError(qq, resp) ==
    IF resp.c.err # NoErr THEN [qt |-> [qq EXCEPT !.done = TRUE], ret |-> RetErr(resp.c.err)]
    ELSE IF resp.c.n = 0 THEN [qt |-> [qq EXCEPT !.done = TRUE], ret |-> RetNil]
    ELSE [qt |-> [qq EXCEPT !.iter = resp.iter],
          ret |-> RetVal([j \in 1..resp.c.n |-> QuotaRule(resp.ents[j])])]

QuotasNextResult(qq, resp) ==
    IF resp.c.err # NoErr THEN [qt |-> qq, ret |-> RetErr(resp.c.err)]
    ELSE IF resp.c.n = 0 THEN [qt |-> [qq EXCEPT !.done = TRUE], ret |-> RetNil]
    ELSE [qt |-> [qq EXCEPT !.iter = resp.iter],
          ret |-> RetVal([j \in 1..resp.c.n |-> QuotaRule(resp.ents[j])])]

QuotasNext ==
    /\ obj.kind = "Quotas"
    /\ Len(acc) < MaxAcc
    /\ IF QuotasNextSkips(qt)
       THEN /\ hist' = [op |-> "Quotas.Next", pre |-> qt, reqs |-> <<>>,
                        resps |-> <<>>, ret |-> RetNil]
            /\ UNCHANGED <<qt, acc>>
       ELSE \E resp \in QuotaResponses(kern, QuotasRequest(qt)) :
              LET r == QuotasNextResult(qt, resp)
              IN  /\ qt' = r.qt
                  /\ acc' = acc \o r.ret.val
                  /\ hist' = [op |-> "Quotas.Next", pre |-> qt,
                              reqs |-> <<QuotasRequest(qt)>>, resps |-> <<resp>>,
                              ret |-> r.ret]
    /\ UNCHANGED <<obj, q, w, xq, tg, kern, entry, probe, call, rset, cursors>>

QuotasReset ==
    /\ obj.kind = "Quotas"
    /\ qt' = [qt EXCEPT !.done = FALSE, !.iter = <<0, 0>>]
    /\ acc' = <<>>
    /\ hist' = [op |-> "Quotas.Reset", pre |-> qt, reqs |-> <<>>, resps |-> <<>>,
                ret |-> RetNil]
    /\ UNCHANGED <<obj, q, w, xq, tg, kern, entry, probe, call, rset, cursors>>

(***************************************************************************)
(* RuleSet: quota rules in the order the filesystem matches them, through  *)
(* the Len, Less and Swap of sort.Interface.                               *)
(***************************************************************************)
LessPriorityAscending(r, i, j) ==
    IF r[i].Prioirity # r[j].Prioirity THEN r[i].Prioirity < r[j].Prioirity
    ELSE FALSE

LessLimitThenOp(a, b) ==
    IF a.Limit # b.Limit THEN a.Limit > b.Limit
    ELSE IF a.Op # b.Op THEN a.Op > b.Op
    ELSE FALSE

\* the end of Less: operation, then limit, then "rules are the same"
LessOpLimit(a, b) ==
    IF a.Op # b.Op THEN a.Op > b.Op
    ELSE IF a.Limit # b.Limit THEN a.Limit > b.Limit
    ELSE FALSE

\* the middle of Less: value, source and flags of each of the three names
LessNames(a, b) ==
    IF a.QuotaValue[1] # b.QuotaValue[1] THEN a.QuotaValue[1] > b.QuotaValue[1]
    ELSE IF a.QuotaSource[1] # b.QuotaSource[1] THEN a.QuotaSource[1] > b.QuotaSource[1]
    ELSE IF a.QuotaFlags[1] # b.QuotaFlags[1] THEN a.QuotaFlags[1] > b.QuotaFlags[1]
    ELSE IF a.QuotaValue[2] # b.QuotaValue[2] THEN a.QuotaValue[2] > b.QuotaValue[2]
    ELSE IF a.QuotaSource[2] # b.QuotaSource[2] THEN a.QuotaSource[2] > b.QuotaSource[2]
    ELSE IF a.QuotaFlags[2] # b.QuotaFlags[2] THEN a.QuotaFlags[2] > b.QuotaFlags[2]
    ELSE IF a.QuotaValue[3] # b.QuotaValue[3] THEN a.QuotaValue[3] > b.QuotaValue[3]
    ELSE IF a.QuotaSource[3] # b.QuotaSource[3] THEN a.QuotaSource[3] > b.QuotaSource[3]
    ELSE IF a.QuotaFlags[3] # b.QuotaFlags[3] THEN a.QuotaFlags[3] > b.QuotaFlags[3]
    ELSE LessOpLimit(a, b)

\* RuleSet.Less (indexes from 1)
Less(r, i, j) ==
    IF r[i].Prioirity # r[j].Prioirity THEN r[i].Prioirity > r[j].Prioirity
    ELSE LessNames(r[i], r[j])

\* RuleSet.Swap
Swap(r, i, j) == [r EXCEPT ![i] = r[j], ![j] = r[i]]

\* sort.Sort on a RuleSet of at most 12 rules is an insertion sort by Less
\* and Swap: element i sinks while it is Less than the one before it
RECURSIVE Sink(_, _)
Sink(r, j) == IF j > 1 /\ Less(r, j, j - 1) THEN Sink(Swap(r, j, j - 1), j - 1) ELSE r

RECURSIVE InsertionSort(_, _)
InsertionSort(r, i) == IF i > Len(r) THEN r ELSE InsertionSort(Sink(r, i), i + 1)

Sort(r) == InsertionSort(r, 2)

RetBool(v) == [val |-> <<>>, isnil |-> TRUE, err |-> NoErr, less |-> v]

RuleSetLess ==
    /\ obj.kind = "RuleSet"
    /\ \E i \in 1..Len(rset), j \in 1..Len(rset) :
         hist' = [op |-> "Less", pre |-> <<i, j>>, reqs |-> <<>>, resps |-> <<>>,
                  ret |-> RetBool(Less(rset, i, j))]
    /\ UNCHANGED <<obj, q, w, xq, tg, qt, kern, acc, entry, probe, call, rset, cursors>>

RuleSetSwap ==
    /\ obj.kind = "RuleSet"
    /\ \E i \in 1..Len(rset), j \in 1..Len(rset) :
         /\ rset' = Swap(rset, i, j)
         /\ hist' = [op |-> "Swap", pre |-> rset, reqs |-> <<>>, resps |-> <<>>,
                     ret |-> RetNil]
    /\ UNCHANGED <<obj, q, w, xq, tg, qt, kern, acc, entry, probe, call, cursors>>

RuleSetSort ==
    /\ obj.kind = "RuleSet"
    /\ rset' = Sort(rset)
    /\ hist' = [op |-> "Sort", pre |-> rset, reqs |-> <<>>, resps |-> <<>>, ret |-> RetNil]
    /\ UNCHANGED <<obj, q, w, xq, tg, qt, kern, acc, entry, probe, call, cursors>>

(***************************************************************************)
(* The inode walk of one Query over a fixed index.                         *)
(***************************************************************************)
ByOpts ==
    {ByMSeq(f, l) : f \in SampleKeys, l \in SampleKeys}
    \cup {ByDSeq(f, l) : f \in SampleKeys, l \in SampleKeys}

QueryOptLists ==
    {<<>>}
    \cup {<<o>> : o \in ByOpts}
    \cup {<<o, WithBatchSize(b)>> : o \in ByOpts, b \in 1..MaxBatch}

QueryIndexes ==
    LET sets == SubsetsUpTo(SampleKeys, MaxEntries)
    IN  {[i \in {QUERYINODESMETASEQ, QUERYINODESDATASEQ} |->
            IF i = sel THEN S ELSE {}] :
         S \in sets, sel \in {QUERYINODESMETASEQ, QUERYINODESDATASEQ}}

InitQuery ==
    /\ q \in {NewQuery(opts) : opts \in QueryOptLists}
    /\ obj = [kind |-> "Query", new |-> q]
    /\ kern \in QueryIndexes
    /\ hist = Fresh(q)
    /\ acc = <<>>
    /\ w = ZeroWaiters /\ xq = ZeroXattrQuery /\ tg = ZeroTotalsGroup /\ qt = ZeroQuotas
    /\ entry = ZeroKey /\ probe = ZeroKey
    /\ call = NoCall /\ rset = <<>> /\ cursors = <<>>

NextQuery == QueryNext

SpecQuery == InitQuery /\ [][NextQuery]_vars

\* the entries of the walk's index inside the range the Query was built with
QueryInRange ==
    {k \in kern[obj.new.index] : KeyLeq(obj.new.first, k) /\ KeyLeq(k, obj.new.last)}

StrictlyAscending(s) == \A i \in 1..(Len(s) - 1) : KeyLess(s[i], s[i + 1])

\* C1: the batches of an inode walk, put end to end, hold every in-range
\* entry exactly once and in key order: what has been collected so far is
\* strictly ascending and in range, and once Next returns the empty batch it
\* is the whole in-range index in key order, whatever the batch size.
C1_WalkEveryEntryOnce ==
    obj.kind = "Query" =>
        /\ StrictlyAscending(acc)
        /\ \A i \in 1..Len(acc) : acc[i] \in QueryInRange
        /\ (hist.op = "Query.Next" /\ hist.ret = RetNil) => acc = SortKeys(QueryInRange)

\* C2: after a batch that ends in the maximum key the walk is over: a later
\* Next (one that adds nothing to what was collected) has sent no request.
C2_MaxKeyEndsWalk ==
    (obj.kind = "Query" /\ acc # <<>> /\ Last(acc) = MaxKey /\ hist.ret.val = <<>>)
        => hist.reqs = <<>>

\* C28: default bounds.  A Query constructed with no By* option has lower
\* bound the zero key and upper bound the maximum key, and its first request
\* carries them, so it covers the whole index.
C28_DefaultBounds ==
    (obj.kind = "Query" /\ obj.new = NewQuery(<<>>) /\ hist.op = "Query.Next"
     /\ hist.pre = obj.new) =>
        (hist.reqs[1].First = ZeroKey /\ hist.reqs[1].Last = MaxKey)

\* C6 as stated: once Query.Next has received count 0 the walk is DONE and
\* the next Query.Next returns empty with no error and sends no request.
C6_ZeroCountIsDone ==
    [][(obj.kind = "Query" /\ hist.op = "Query.Next" /\ hist.ret = RetNil)
         => (hist'.reqs = <<>> /\ hist'.ret = RetNil)]_vars

\* C6 as amended: a zero count returns the empty batch with no error and
\* leaves every field of the Query as it was; there is no DONE state, and
\* the next Query.Next sends one request again, the same one.
C6_ZeroCountRepolls ==
    [][(obj.kind = "Query" /\ hist.op = "Query.Next" /\ hist.resps[1].c.err = NoErr
          /\ hist.resps[1].c.n = 0)
         => (/\ hist.ret = RetNil
             /\ q = hist.pre
             /\ Len(hist'.reqs) = 1
             /\ hist'.reqs[1] = hist.reqs[1])]_vars

C6_Witness ==
    /\ obj.kind = "Query" /\ hist.op = "Query.Next"
    /\ hist.resps[1].c.err = NoErr /\ hist.resps[1].c.n = 0
    /\ acc # <<>>

(***************************************************************************)
(* One Waiters cursor over a fixed set of pending waits.                   *)
(***************************************************************************)
WaitEntries ==
    {DataWaitingEntry(i, b, IF b = 0 THEN DATAWAITOPREAD ELSE DATAWAITOPWRITE) :
       i \in U64, b \in U64}

WaitersOptLists == {<<>>} \cup {<<WithWaitersCount(b)>> : b \in 1..MaxBatch}

InitWaiters ==
    /\ w \in {NewWaiters(opts) : opts \in WaitersOptLists}
    /\ obj = [kind |-> "Waiters", new |-> w]
    /\ kern \in SubsetsUpTo(WaitEntries, MaxEntries)
    /\ hist = Fresh(w)
    /\ acc = <<>>
    /\ q = ZeroQuery /\ xq = ZeroXattrQuery /\ tg = ZeroTotalsGroup /\ qt = ZeroQuotas
    /\ entry = ZeroKey /\ probe = ZeroKey
    /\ call = NoCall /\ rset = <<>> /\ cursors = <<>>

NextWaiters == WaitersNext \/ WaitersReset

SpecWaiters == InitWaiters /\ [][NextWaiters]_vars

\* C31: data-wait enumeration.  For a queue of waits on real inodes (inode
\* numbers start at 1) that does not change: the cursor is the (Ino, Iblock)
\* of the last entry returned since construction or Reset, each request
\* carries it as the after-position, what has been returned is always the
\* first waits of the queue in (Ino, Iblock) order, each once, and when Next
\* answers (nil, nil) all of them have been returned; an empty batch or an
\* error leaves the cursor where it was.
C31_WaitersEnumerate ==
    (obj.kind = "Waiters" /\ \A e \in kern : e.Ino >= 1) =>
        LET all == SortWaits(kern)
        IN  /\ Len(acc) <= Len(all) /\ acc = SubSeq(all, 1, Len(acc))
            /\ <<w.ino, w.iblock>> =
                  IF acc = <<>> THEN <<0, 0>> ELSE <<Last(acc).Ino, Last(acc).Iblock>>
            /\ hist.op = "Waiters.Next" =>
                  /\ hist.reqs[1].After_ino = hist.pre.ino
                  /\ hist.reqs[1].After_iblock = hist.pre.iblock
                  /\ hist.ret.val = <<>> => w = hist.pre
                  /\ hist.ret = RetNil => acc = all

C31_Witness ==
    /\ obj.kind = "Waiters" /\ hist.op = "Waiters.Next" /\ hist.ret = RetNil
    /\ w.batch = 1 /\ Len(acc) = 2 /\ acc = SortWaits(kern)
    /\ \A e \in kern : e.Ino >= 1
    /\ acc[1].Ino = acc[2].Ino

(***************************************************************************)
(* One XattrQuery over a fixed set of inodes that carry the xattr.         *)
(***************************************************************************)
XattrOptLists ==
    {<<>>}
    \cup {<<WithXBatchSize(b)>> : b \in 1..MaxBatch}
    \cup {<<WithXStartIno(i)>> : i \in U64}
    \cup {<<WithXBatchSize(b), WithXStartIno(i)>> : b \in 1..MaxBatch, i \in U64}

InitXattr ==
    /\ xq \in {NewXattrQuery(opts) : opts \in XattrOptLists}
    /\ obj = [kind |-> "XattrQuery", new |-> xq]
    /\ kern \in SUBSET U64
    /\ hist = Fresh(xq)
    /\ acc = <<>>
    /\ q = ZeroQuery /\ w = ZeroWaiters /\ tg = ZeroTotalsGroup /\ qt = ZeroQuotas
    /\ entry = ZeroKey /\ probe = ZeroKey
    /\ call = NoCall /\ rset = <<>> /\ cursors = <<>>

NextXattr == XattrQueryNext

SpecXattr == InitXattr /\ [][NextXattr]_vars

\* C25: an XattrQuery batch that ends with inode 2^64-1 ends the search.
\* After XattrQuery.Next has returned a batch whose last inode is the largest
\* inode number, the cursor is done and the next XattrQuery.Next sends no
\* request, so none with Next_ino wrapped to 0.
C25_LastInodeEndsSearch ==
    [][(/\ obj.kind = "XattrQuery" /\ hist.op = "XattrQuery.Next"
        /\ hist.ret.val # <<>> /\ Last(hist.ret.val) = max64)
         => (xq.done /\ hist'.reqs = <<>>)]_vars

\* C8: XattrQuery.Next sets done exactly when the answer carries the END
\* flag; a zero count without the flag leaves the cursor as it was, so the
\* next Next asks again from the same Next_ino; a batch with the END flag and
\* a count above zero is returned in full.
C8_EndFlagOnly ==
    (hist.op = "XattrQuery.Next" /\ Len(hist.resps) = 1 /\ hist.resps[1].c.err = NoErr) =>
        LET resp == hist.resps[1]
            end == resp.flags % 2 = 1
        IN  /\ xq.done = end
            /\ (resp.c.n = 0 /\ ~end) =>
                  (xq = hist.pre /\ XattrRequest(xq) = hist.reqs[1] /\ hist.ret.isnil)
            /\ (end /\ resp.c.n > 0 /\ resp.c.n * sizeofU64 <= hist.pre.buflen) =>
                  (hist.ret.err = NoErr /\ hist.ret.val = SubSeq(resp.ents, 1, resp.c.n))

C8_Witness ==
    /\ hist.op = "XattrQuery.Next" /\ Len(hist.resps) = 1
    /\ hist.resps[1].c.err = NoErr /\ hist.resps[1].c.n = 0 /\ hist.resps[1].flags = 0
    /\ \E i \in kern : i >= xq.next
    /\ ~xq.done /\ acc # <<>>

(***************************************************************************)
(* One TotalsGroup over a fixed totals index.                              *)
(***************************************************************************)
IdWords == {0, max64}

TotalsEntries ==
    {xattrTotal(<<a, b, c>>, 1 + ((a + c) % max64), 1) :
       a \in IdWords, b \in IdWords, c \in U64}

InitTotals ==
    /\ tg \in {NewTotalsGroup(id1, id2, n) :
                 id1 \in IdWords, id2 \in IdWords, n \in 1..MaxBatch}
    /\ obj = [kind |-> "TotalsGroup", new |-> tg]
    /\ kern \in SubsetsUpTo(TotalsEntries, MaxEntries)
    /\ hist = Fresh(tg)
    /\ acc = <<>>
    /\ q = ZeroQuery /\ w = ZeroWaiters /\ xq = ZeroXattrQuery /\ qt = ZeroQuotas
    /\ entry = ZeroKey /\ probe = ZeroKey
    /\ call = NoCall /\ rset = <<>> /\ cursors = <<>>

NextTotals == TotalsGroupNext \/ TotalsGroupReset

SpecTotals == InitTotals /\ [][NextTotals]_vars

InGroup(id) == id[1] = obj.new.id1 /\ id[2] = obj.new.id2

\* C9: every entry TotalsGroup.Next returns has ID[0] = id1 and ID[1] = id2;
\* when the kernel's batch has its first entry of another group at index i,
\* Next returns exactly the entries before it and sets done.
C9_PrefixFilter ==
    (obj.kind = "TotalsGroup" /\ hist.op = "TotalsGroup.Next") =>
        /\ \A j \in 1..Len(hist.ret.val) : InGroup(hist.ret.val[j].ID)
        /\ \A j \in 1..Len(acc) : InGroup(acc[j].ID)
        /\ (Len(hist.resps) = 1 /\ hist.resps[1].c.err = NoErr) =>
             \A i \in 1..hist.resps[1].c.n :
                (/\ ~InGroup(hist.resps[1].ents[i].Name)
                 /\ \A j \in 1..(i - 1) : InGroup(hist.resps[1].ents[j].Name))
                => /\ tg.done
                   /\ ~hist.ret.isnil
                   /\ Len(hist.ret.val) = i - 1
                   /\ \A j \in 1..(i - 1) :
                        hist.ret.val[j].ID = hist.resps[1].ents[j].Name

C9_Witness ==
    /\ obj.kind = "TotalsGroup" /\ hist.op = "TotalsGroup.Next"
    /\ Len(hist.resps) = 1 /\ hist.resps[1].c.n = 2
    /\ ~InGroup(hist.resps[1].ents[2].Name)
    /\ Len(hist.ret.val) = 1 /\ tg.done

\* the totals of the group in the kernel's index, in name order
GroupTotals == SortTotals({e \in kern : InGroup(e.Name)})

\* C10: the batches of TotalsGroup.Next, put end to end, hold every entry of
\* the group exactly once in ascending order of the third id word: what has
\* been collected is ascending and of the group, and once Next returns nil it
\* is the whole group, whatever the count.
C10_GroupComplete ==
    obj.kind = "TotalsGroup" =>
        /\ \A j \in 1..Len(acc) : InGroup(acc[j].ID)
        /\ \A j \in 1..(Len(acc) - 1) : acc[j].ID[3] < acc[j + 1].ID[3]
        /\ (hist.op = "TotalsGroup.Next" /\ hist.ret.isnil /\ hist.ret.err = NoErr) =>
             /\ Len(acc) = Len(GroupTotals)
             /\ \A j \in 1..Len(acc) :
                  /\ acc[j].ID = GroupTotals[j].Name
                  /\ acc[j].Total = GroupTotals[j].Total
                  /\ acc[j].Count = GroupTotals[j].Count

C10_Witness ==
    /\ obj.kind = "TotalsGroup" /\ hist.op = "TotalsGroup.Next"
    /\ hist.ret.isnil /\ hist.ret.err = NoErr
    /\ tg.count = 1 /\ Len(acc) = 2

\* the last call of TotalsGroup.Next got a batch whose last entry has third
\* id word 2^64-1
EndsAtMaxWord ==
    /\ obj.kind = "TotalsGroup" /\ hist.op = "TotalsGroup.Next" /\ Len(hist.resps) = 1
    /\ hist.resps[1].c.err = NoErr /\ hist.resps[1].c.n >= 1
    /\ hist.resps[1].ents[hist.resps[1].c.n].Name[3] = max64

\* C33: key-space exhaustion of a totals group.  When the last entry of a
\* batch has third id word 2^64-1, TotalsGroup.Next returns the entries of
\* the batch up to the first one outside the group, with no error, and the
\* cursor is done: the next TotalsGroup.Next sends no request, so none with
\* the third word wrapped to 0.
C33_MaxWordEndsGroup ==
    [][EndsAtMaxWord =>
         LET ents == hist.resps[1].ents
             own == {i \in 0..Len(ents) : \A j \in 1..i : InGroup(ents[j].Name)}
             k == CHOOSE i \in own : \A j \in own : j <= i
         IN  /\ tg.done
             /\ hist.ret.err = NoErr
             /\ hist.ret.val = [j \in 1..k |-> XattrTotal(ents[j])]
             /\ hist'.op = "TotalsGroup.Next" => hist'.reqs = <<>>]_vars

C33_Witness ==
    /\ EndsAtMaxWord
    /\ InGroup(hist.resps[1].ents[hist.resps[1].c.n].Name)
    /\ Len(hist.ret.val) = hist.resps[1].c.n
    /\ tg.done /\ tg.pos[3] = 0 /\ ~hist.pre.done

(***************************************************************************)
(* Lookups of single totals in a fixed totals index.                       *)
(***************************************************************************)
InitLookup ==
    /\ obj = [kind |-> "ReadXattrTotals", new |-> <<>>]
    /\ kern \in SubsetsUpTo(TotalsEntries, MaxEntries)
    /\ hist = Fresh(<<>>)
    /\ acc = <<>>
    /\ q = ZeroQuery /\ w = ZeroWaiters /\ xq = ZeroXattrQuery
    /\ tg = ZeroTotalsGroup /\ qt = ZeroQuotas
    /\ entry = ZeroKey /\ probe = ZeroKey
    /\ call = NoCall /\ rset = <<>> /\ cursors = <<>>

NextLookup == ReadXattrTotals

SpecLookup == InitLookup /\ [][NextLookup]_vars

\* the totals of the index with exactly the name looked up
Named(id) == {e \in kern : e.Name = id}

\* C11: ReadXattrTotals is an exact-match lookup.  With no error from the call
\* it returns the Total and Count of the kernel's entry exactly when the call
\* returned an entry whose name equals (id1, id2, id3) in all three words,
\* and the zero XattrTotal with a nil error in every other case (count 0, or
\* the first entry at or after the position has another name).
C11_ExactMatchLookup ==
    (hist.op = "ReadXattrTotals" /\ hist.resps[1].c.err = NoErr) =>
        LET resp == hist.resps[1]
            hit == resp.c.n >= 1 /\ resp.ents[1].Name = hist.pre
        IN  /\ hist.ret.err = NoErr
            /\ hit => /\ hist.ret.val.Total = resp.ents[1].Total
                      /\ hist.ret.val.Count = resp.ents[1].Count
                      /\ Named(hist.pre) = {resp.ents[1]}
            /\ ~hit => /\ hist.ret.val = ZeroXattrTotal
                       /\ Named(hist.pre) = {}

\* C34: ReadXattrTotals identifies its result.  When the call returned the
\* entry named (id1, id2, id3), the XattrTotal that ReadXattrTotals returns
\* has ID = (id1, id2, id3).
C34_LookupCarriesId ==
    (/\ hist.op = "ReadXattrTotals" /\ hist.resps[1].c.err = NoErr
     /\ hist.resps[1].c.n >= 1 /\ hist.resps[1].ents[1].Name = hist.pre) =>
        hist.ret.val.ID = hist.pre

C11_Witness ==
    /\ hist.op = "ReadXattrTotals"
    /\ hist.resps[1].c.n = 1
    /\ hist.resps[1].ents[1].Name # hist.pre
    /\ hist.resps[1].ents[1].Name[1] = hist.pre[1]
    /\ hist.resps[1].ents[1].Name[2] = hist.pre[2]
    /\ hist.ret.val = ZeroXattrTotal /\ hist.ret.err = NoErr

(***************************************************************************)
(* GetParents of one inode over a fixed set of back-references, into a     *)
(* fresh buffer or one that still holds the records of an earlier call.    *)
(***************************************************************************)
MaxRefs == 3

SampleRefs ==
    {DirRef(1, 0, 4, <<97>>, 2),
     DirRef(1, 2, 8, <<98, 99>>, 1),
     DirRef(2, 0, 8, <<97, 98, 99>>, 0),
     DirRef(max64, max64, 8, <<99>>, 2)}

\* what an earlier GetParents of another inode left in the buffer
StaleBytes ==
    EncodeDirent(0, DirRef(1, 1, 8, <<98>>, 2), 0)
    \o EncodeDirent(0, DirRef(2, 2, 4, <<99, 97>>, 1), DIRENTFLAGLAST)

\* the caller's buffers: a whole number of records or not (with less than
\* a record header left over, or exactly one), fresh or reused
BufLens == {32, 40, 61, 64}

Buffers ==
    {Zeros(n) : n \in BufLens \cup {getparentBufsize}}
    \cup {Take(StaleBytes \o Zeros(n), n) : n \in BufLens \cup {getparentBufsize}}

InitParents ==
    /\ kern \in SubsetsUpTo(SampleRefs, MaxRefs)
    /\ call \in {GetParentsEntry(ino, b) : ino \in 1..max64, b \in Buffers}
    /\ obj = [kind |-> "GetParents", new |-> call]
    /\ hist = Fresh(call)
    /\ acc = <<>>
    /\ q = ZeroQuery /\ w = ZeroWaiters /\ xq = ZeroXattrQuery
    /\ tg = ZeroTotalsGroup /\ qt = ZeroQuotas
    /\ entry = ZeroKey /\ probe = ZeroKey
    /\ rset = <<>> /\ cursors = <<>>

NextParents == GetParents

SpecParents == InitParents /\ [][NextParents]_vars

ParentOf(ref) == Parent(ref.Dir_ino, ref.Dir_pos, ref.D_type, ref.Name)

\* the back-references of the inode as GetParents should list them
AllParents == LET refs == SortRefs(kern) IN [i \in 1..Len(refs) |-> ParentOf(refs[i])]

\* C12: when the back-references of an inode do not fit in one response,
\* each later request of GetParents carries the position of the last record
\* decoded, so the listing never repeats a back-reference, needs no more
\* calls than there are back-references (and one), and a listing that ends
\* with no error holds every back-reference of the inode exactly once.
C12_ContinuationListsAllOnce ==
    call.fn = "GetParents" =>
        /\ (hist.op = "GetParents" /\ hist.pre.parents # <<>>) =>
              ~RefLess(hist.reqs[1],
                       [Dir_ino |-> Last(hist.pre.parents).Ino,
                        Dir_pos |-> Last(hist.pre.parents).Pos])
        /\ \A i \in 1..Len(call.parents) : \A j \in 1..Len(call.parents) :
              i # j => call.parents[i] # call.parents[j]
        /\ call.calls <= Cardinality(kern) + 1
        /\ (call.pc = "done" /\ hist.ret.err = NoErr) => call.parents = AllParents

\* the back-references the kernel had left to list for a request
Pending(req) == SortRefs({l \in kern : ~RefLess(l, req)})

\* C13: the last-entry flag of a decoded record is what ends GetParents.  When
\* a response holds the record flagged DIRENTFLAGLAST, GetParents returns at
\* once with no error, that record is the last of the result and nothing
\* after it in the buffer is decoded; when GetParents returns a result and
\* no such record was decoded, the call had returned count 0.
C13_LastFlagAuthoritative ==
    (hist.op = "GetParents" /\ hist.resps[1].c.err = NoErr) =>
        LET n == hist.resps[1].c.n
            refs == Pending(hist.reqs[1])
            last == n >= 1 /\ n = Len(refs)
        IN  /\ last => /\ call.pc = "done"
                       /\ hist.ret.err = NoErr
                       /\ hist.ret.val = call.parents
                       /\ call.parents =
                            hist.pre.parents \o [i \in 1..n |-> ParentOf(refs[i])]
            /\ (call.pc = "done" /\ hist.ret.err = NoErr /\ ~last) => n = 0
            /\ (call.pc = "loop") => (n >= 1 /\ ~last)

\* C32: back-reference decoding is bounded by what the kernel wrote.  From a
\* response that GetParents decodes without an error it appends exactly the
\* records the kernel reported for that call, count of them; the bytes of the
\* buffer after those records add no Parent.
C32_DecodesOnlyReported ==
    (hist.op = "GetParents" /\ hist.resps[1].c.err = NoErr /\ hist.ret.err = NoErr) =>
        LET n == hist.resps[1].c.n
            refs == Pending(hist.reqs[1])
        IN  call.parents = hist.pre.parents \o [i \in 1..n |-> ParentOf(refs[i])]

C13_Witness ==
    /\ hist.op = "GetParents" /\ call.pc = "done" /\ hist.ret.err = NoErr
    /\ hist.resps[1].c.n = 1
    /\ Len(call.b) >= 64 /\ call.b[33] # 0
    /\ Len(hist.ret.val) = 1

(***************************************************************************)
(* Decoding of a record stream that may end anywhere.                      *)
(***************************************************************************)
MaxRecs == 2

DentSamples == SampleRefs \cup {DirRef(2, 1, 8, <<98>>, 10)}

\* the streams: up to MaxRecs different records, each flagged last or not
RecLists ==
    UNION {{s \in [1..n -> [ref : DentSamples, flags : {0, DIRENTFLAGLAST}]] :
              \A i \in 1..n : \A j \in 1..n : i # j => s[i].ref # s[j].ref} :
           n \in 1..MaxRecs}

RECURSIVE EncodeRecs(_, _)
EncodeRecs(recs, i) ==
    IF i > Len(recs) THEN <<>>
    ELSE EncodeDirent(1, recs[i].ref, recs[i].flags) \o EncodeRecs(recs, i + 1)

InitDents ==
    /\ kern \in RecLists
    /\ \E n \in 0..Len(EncodeRecs(kern, 1)) :
         call = [fn |-> "bytes.Reader", b |-> Take(EncodeRecs(kern, 1), n), off |-> 0]
    /\ obj = [kind |-> "parseDents", new |-> call]
    /\ hist = Fresh(call)
    /\ acc = <<>>
    /\ q = ZeroQuery /\ w = ZeroWaiters /\ xq = ZeroXattrQuery
    /\ tg = ZeroTotalsGroup /\ qt = ZeroQuotas
    /\ entry = ZeroKey /\ probe = ZeroKey
    /\ rset = <<>> /\ cursors = <<>>

NextDents == ParseDent \/ ParseDents

SpecDents == InitDents /\ [][NextDents]_vars

\* the offset in the stream at which record j starts
RECURSIVE RecStart(_, _)
RecStart(recs, j) ==
    IF j <= 1 THEN 0 ELSE RecStart(recs, j - 1) + EntryBytes(recs[j - 1].ref)

\* C14: parseDent consumes exactly Entry_bytes bytes of a record whose
\* Entry_bytes is at least 29 + Name_len: header, name and padding.  The k-th
\* record decoded starts where the records before it end, the reader is left
\* at the start of the next one, and the Parent decoded is the k-th record's.
C14_RecordFraming ==
    (hist.op = "parseDent" /\ hist.ret.err = NoErr) =>
        LET k == Len(acc)
        IN  /\ k <= Len(kern)
            /\ hist.pre.off = RecStart(kern, k)
            /\ call.off = hist.pre.off + EntryBytes(kern[k].ref)
            /\ acc[k] = ParentOf(kern[k].ref)
            /\ hist.ret.isLast = (kern[k].flags = DIRENTFLAGLAST)

C14_Witness ==
    /\ hist.op = "parseDent" /\ hist.ret.err = NoErr
    /\ Len(acc) = 2
    /\ kern[1].ref.Pad > 0 /\ kern[2].ref.Pad > 0
    /\ Len(kern[1].ref.Name) # Len(kern[2].ref.Name)
    /\ EntryBytes(kern[1].ref) # EntryBytes(kern[2].ref)

\* record j of the stream is cut short by the end of the buffer b
CutInside(b, j) ==
    /\ RecStart(kern, j) < Len(b)
    /\ Len(b) < RecStart(kern, j) + EntryBytes(kern[j].ref)

\* C15: a buffer that ends inside a record (in its header, its name bytes or
\* its padding) makes parseDents fail: whenever the decoding gets to a record
\* that is cut short, parseDents returns an error and no Parent at all.
C15_TruncationIsAnError ==
    hist.op = "parseDents" =>
        \A j \in 1..Len(kern) :
            (/\ CutInside(hist.pre.b, j)
             /\ \A i \in 1..(j - 1) : kern[i].flags # DIRENTFLAGLAST)
            => (hist.ret.err # NoErr /\ hist.ret.val = <<>>)

(***************************************************************************)
(* InoToPaths of one inode over a fixed set of links.                      *)
(***************************************************************************)
MaxLinks == 3

SampleLinks ==
    {PathLink(0, 0, <<97, 98, 99>>),
     PathLink(1, 0, <<98>>),
     PathLink(1, max64, <<97, 98>>),
     PathLink(max64, 1, <<98, 97>>),
     PathLink(max64, max64, <<99>>)}

InitPaths ==
    /\ kern \in SubsetsUpTo(SampleLinks, MaxLinks)
    /\ call \in {InoToPathsEntry(ino) : ino \in 1..max64}
    /\ obj = [kind |-> "InoToPaths", new |-> call]
    /\ hist = Fresh(call)
    /\ acc = <<>>
    /\ q = ZeroQuery /\ w = ZeroWaiters /\ xq = ZeroXattrQuery
    /\ tg = ZeroTotalsGroup /\ qt = ZeroQuotas
    /\ entry = ZeroKey /\ probe = ZeroKey
    /\ rset = <<>> /\ cursors = <<>>

NextPaths == InoToPaths

SpecPaths == InitPaths /\ [][NextPaths]_vars

\* the paths of the inode, one per link, in link order
AllPaths == LET refs == SortRefs(kern) IN [i \in 1..Len(refs) |-> refs[i].Path]

\* C16: InoToPaths returns one path per link.  What it has collected is
\* always the first paths of the inode in link order; ENOENT from the call
\* gate ends it with a nil error, not with that error; and whenever it
\* returns with a nil error the result is exactly the k paths of the k links.
C16_OnePathPerLink ==
    hist.op = "InoToPaths" =>
        /\ Len(call.paths) <= Len(AllPaths)
        /\ call.paths = SubSeq(AllPaths, 1, Len(call.paths))
        /\ hist.resps[1].c.err = errENOENT =>
              (call.pc = "done" /\ hist.ret.err = NoErr)
        /\ (call.pc = "done" /\ hist.ret.err = NoErr) =>
              /\ hist.ret.val = AllPaths
              /\ Len(hist.ret.val) = Cardinality(kern)

C16_Witness ==
    /\ hist.op = "InoToPaths" /\ call.pc = "done"
    /\ hist.resps[1].c.err = errENOENT
    /\ Len(hist.ret.val) = MaxLinks

\* a (Dir_ino, Dir_pos) pair as one number
PairValue(dino, dpos) == dino * (max64 + 1) + dpos

\* C17: after each successful call the next request position of InoToPaths
\* is the result's (DirIno, DirPos) plus one as a 2-word number (Dir_pos + 1,
\* carrying into Dir_ino when Dir_pos wraps to 0), each request is sent from
\* the position so kept, and the loop ends without another call, with the
\* paths collected and a nil error, exactly when Dir_ino wraps to 0.
C17_TwoWordAdvance ==
    (hist.op = "InoToPaths" /\ hist.resps[1].c.err = NoErr) =>
        LET res == hist.resps[1].res
            wrapped == res.DirIno = max64 /\ res.DirPos = max64
        IN  /\ hist.reqs[1] = hist.pre.ip
            /\ call.ip.Dir_pos = (res.DirPos + 1) % (max64 + 1)
            /\ call.ip.Dir_ino = IF res.DirPos = max64
                                 THEN (res.DirIno + 1) % (max64 + 1) ELSE res.DirIno
            /\ PairValue(call.ip.Dir_ino, call.ip.Dir_pos)
                 = (PairValue(res.DirIno, res.DirPos) + 1) % ((max64 + 1) * (max64 + 1))
            /\ (call.pc = "done") = wrapped
            /\ wrapped => /\ call.ip.Dir_ino = 0
                          /\ hist.ret.err = NoErr
                          /\ hist.ret.val = call.paths

C17_Witness ==
    /\ hist.op = "InoToPaths" /\ hist.resps[1].c.err = NoErr
    /\ call.pc = "done"
    /\ Len(call.paths) >= 2
    /\ \E l \in kern : l.Dir_pos = max64 /\ l.Dir_ino < max64

\* C37: InoToPaths is all-or-nothing on failure.  A call of the loop that
\* fails with an error other than ENOENT ends InoToPaths at once with a nil
\* slice and that error, whatever earlier calls had collected; and a
\* non-empty list is only ever returned with a nil error.
C37_AllOrNothing ==
    hist.op = "InoToPaths" =>
        /\ (hist.resps[1].c.err \notin {NoErr, errENOENT}) =>
              /\ call.pc = "done"
              /\ hist.ret.err = hist.resps[1].c.err
              /\ hist.ret.isnil /\ hist.ret.val = <<>>
        /\ hist.ret.val # <<>> => (hist.ret.err = NoErr /\ call.pc = "done")
        /\ hist.ret.err # NoErr => hist.resps[1].c.err = hist.ret.err

C37_Witness ==
    /\ hist.op = "InoToPaths" /\ call.pc = "done"
    /\ Len(hist.pre.paths) >= 2
    /\ hist.resps[1].c.err \in Errnos
    /\ hist.ret.isnil /\ hist.ret.err = hist.resps[1].c.err

(***************************************************************************)
(* One Quotas listing over a fixed list of rules.                          *)
(***************************************************************************)
RuleSamples ==
    { quotaRule(<<1, 0, 0>>, 1, 1, 0, 0, <<0, 0, 0>>, <<0, 0, 0>>),
      quotaRule(<<1, 0, 1>>, 2, 1, 1, 0, <<0, 0, 1>>, <<0, 0, 1>>),
      quotaRule(<<0, 0, 2>>, 1, 2, 0, 1, <<0, 0, 2>>, <<0, 0, 0>>) }

\* the lists without repetition of at most n of the rules
RuleLists(n) ==
    {s \in UNION {[1..k -> RuleSamples] : k \in 0..n} :
       \A i \in 1..Len(s), j \in 1..Len(s) : i # j => s[i] # s[j]}

InitQuotas ==
    /\ qt \in {GetQuotaRules(n) : n \in 1..MaxBatch}
    /\ obj = [kind |-> "Quotas", new |-> qt]
    /\ kern \in RuleLists(MaxEntries)
    /\ hist = Fresh(qt)
    /\ acc = <<>>
    /\ q = ZeroQuery /\ w = ZeroWaiters /\ xq = ZeroXattrQuery /\ tg = ZeroTotalsGroup
    /\ entry = ZeroKey /\ probe = ZeroKey
    /\ call = NoCall /\ rset = <<>> /\ cursors = <<>>

NextQuotas == QuotasNext \/ QuotasReset

SpecQuotas == InitQuotas /\ [][NextQuotas]_vars

\* C21: the quota iterator is an opaque token copied verbatim.  Each request
\* of Quotas.Next carries the iterator the cursor holds; that is the zero
\* token at construction and after Reset, becomes exactly the iterator the
\* kernel left in the request of a successful non-empty call, and is left
\* alone by every other call; and the listing is ended (done set) only by
\* a call that returned count 0.
C21_IteratorIsOpaque ==
    obj.kind = "Quotas" =>
        /\ hist.op = "New" => qt.iter = <<0, 0>>
        /\ hist.op = "Quotas.Reset" => (qt.iter = <<0, 0>> /\ ~qt.done)
        /\ hist.op = "Quotas.Next" =>
              /\ \A i \in 1..Len(hist.reqs) : hist.reqs[i].Iterator = hist.pre.iter
              /\ Len(hist.reqs) = (IF hist.pre.done THEN 0 ELSE 1)
              /\ qt.iter = IF /\ Len(hist.resps) = 1
                              /\ hist.resps[1].c.err = NoErr
                              /\ hist.resps[1].c.n > 0
                           THEN hist.resps[1].iter
                           ELSE hist.pre.iter
              /\ (qt.done /\ ~hist.pre.done) =>
                    (hist.resps[1].c.err = NoErr /\ hist.resps[1].c.n = 0)
              /\ (Len(hist.resps) = 1 /\ hist.resps[1].c.err = NoErr
                  /\ hist.resps[1].c.n = 0) => qt.done

C21_Witness ==
    /\ obj.kind = "Quotas" /\ hist.op = "Quotas.Next"
    /\ hist.pre.iter # <<0, 0>>
    /\ Len(hist.reqs) = 1 /\ hist.reqs[1].Iterator = hist.pre.iter
    /\ hist.resps[1].c.n > 0 /\ qt.iter # hist.pre.iter

(***************************************************************************)
(* GetDF over a file system with a few allocators.                         *)
(***************************************************************************)
MaxAllocs == 3

SampleAllocs ==
    {allocDetailEntry(1, 1, 0, metaFlag), allocDetailEntry(2, max64, 0, 0),
     allocDetailEntry(3, 1, 1, 0), allocDetailEntry(4, max64, 1, metaFlag)}

RECURSIVE AllocLists(_)
AllocLists(n) ==
    IF n = 0 THEN {<<>>}
    ELSE AllocLists(n - 1)
         \cup {Append(l, e) : l \in {x \in AllocLists(n - 1) : Len(x) = n - 1},
                              e \in SampleAllocs}

InitDF ==
    /\ kern \in {[stfs |-> [Total_meta_blocks |-> m, Total_data_blocks |-> max64],
                  ents |-> l] : m \in {1, max64}, l \in AllocLists(MaxAllocs)}
    /\ call = GetDFEntry
    /\ obj = [kind |-> "GetDF", new |-> call]
    /\ hist = Fresh(call)
    /\ acc = <<>>
    /\ q = ZeroQuery /\ w = ZeroWaiters /\ xq = ZeroXattrQuery
    /\ tg = ZeroTotalsGroup /\ qt = ZeroQuotas
    /\ entry = ZeroKey /\ probe = ZeroKey
    /\ rset = <<>> /\ cursors = <<>>

NextDF == GetDFStatfs \/ GetDFAllocDetail

SpecDF == InitDF /\ [][NextDF]_vars

\* C22: the overflow retry of GetDF is bounded and ends in a return.  While
\* the alloc-detail call keeps answering EOVERFLOW the loop doubles at most a
\* bounded number of times, no request has capacity 0, and GetDF stops only by
\* returning a result or an error, never by a fault of the runtime.
C22_BoundedOverflowRetry ==
    call.fn = "GetDF" =>
        /\ call.pc # "panic"
        /\ call.nr <= maxAllocEntries
        /\ hist.op = "GetDF.allocDetail" => hist.reqs[1].Nr > 0

RECURSIVE Pow2(_)
Pow2(k) == IF k = 0 THEN 1 ELSE 2 * Pow2(k - 1)

\* the free blocks of the allocators, meta or data
RECURSIVE AllocFree(_, _)
AllocFree(ents, meta) ==
    IF ents = <<>> THEN 0
    ELSE (AllocFree(Tail(ents), meta)
          + (IF (Head(ents).Flags % 2 = 1) = meta THEN Head(ents).Blocks ELSE 0))
         % (max64 + 1)

\* C23: no leak across resize-and-retry.  After k EOVERFLOW answers the
\* request of GetDF has capacity dfBatchCount * 2^k and its buffer is that
\* many entries of zero bytes, whatever the failed calls wrote; and the totals
\* GetDF returns are those of the entries the successful call wrote.
C23_NoLeakAcrossRetry ==
    (call.fn = "GetDF" /\ hist.op = "GetDF.allocDetail") =>
        /\ hist.reqs[1].Nr = dfBatchCount * Pow2(hist.pre.overflows)
        /\ hist.pre.buf = Zeros(sizeofallocDetailEntry * hist.reqs[1].Nr)
        /\ (call.pc = "done" /\ hist.ret.err = NoErr) =>
             /\ hist.ret.val.FreeMetaBlocks = AllocFree(kern.ents, TRUE)
             /\ hist.ret.val.FreeDataBlocks = AllocFree(kern.ents, FALSE)
             /\ hist.ret.val.TotalMetaBlocks = kern.stfs.Total_meta_blocks
             /\ hist.ret.val.TotalDataBlocks = kern.stfs.Total_data_blocks

C23_Witness ==
    /\ call.fn = "GetDF" /\ hist.op = "GetDF.allocDetail"
    /\ call.pc = "done" /\ hist.ret.err = NoErr
    /\ hist.pre.overflows >= 1
    /\ Len(kern.ents) > dfBatchCount
    /\ hist.ret.val.FreeMetaBlocks > 0 /\ hist.ret.val.FreeDataBlocks > 0

\* the Blocks of a list of entries, added up as a uint64
RECURSIVE SumBlocks(_)
SumBlocks(ents) ==
    IF ents = <<>> THEN 0 ELSE (Head(ents).Blocks + SumBlocks(Tail(ents))) % (max64 + 1)

\* C38: free-block accounting of GetDF.  Each of the ret entries the
\* successful alloc-detail call returned is counted in exactly one total:
\* FreeMetaBlocks if bit 0 of its Flags is set, FreeDataBlocks otherwise; so
\* the two totals add up to the Blocks of those entries (modulo 2^64), and
\* whatever lies in the buffer past entry ret - 1 adds nothing.
C38_FreeBlockAccounting ==
    (call.fn = "GetDF" /\ hist.op = "GetDF.allocDetail"
       /\ call.pc = "done" /\ hist.ret.err = NoErr) =>
        LET n == hist.resps[1].c.n
            ents == [i \in 1..n |-> DecodeAllocDetailEntry(hist.resps[1].buf, i)]
            metas == SelectSeq(ents, LAMBDA e : e.Flags % 2 = 1)
            datas == SelectSeq(ents, LAMBDA e : e.Flags % 2 = 0)
        IN  /\ hist.ret.val.FreeMetaBlocks = SumBlocks(metas)
            /\ hist.ret.val.FreeDataBlocks = SumBlocks(datas)
            /\ Len(metas) + Len(datas) = n
            /\ (hist.ret.val.FreeMetaBlocks + hist.ret.val.FreeDataBlocks) % (max64 + 1)
                 = SumBlocks(ents)

C38_Witness ==
    /\ call.fn = "GetDF" /\ hist.op = "GetDF.allocDetail"
    /\ call.pc = "done" /\ hist.ret.err = NoErr
    /\ hist.resps[1].c.n >= 2
    /\ hist.resps[1].c.n < hist.reqs[1].Nr
    /\ DecodeAllocDetailEntry(hist.resps[1].buf, hist.reqs[1].Nr).Blocks > 0
    /\ hist.ret.val.FreeMetaBlocks > 0 /\ hist.ret.val.FreeDataBlocks > 0

(***************************************************************************)
(* A RuleSet the client sorts: two rules that differ in a few of           *)
(* their fields, or a few rules with priorities at odds with the rest.     *)
(***************************************************************************)
MaxRules == 3
MaxDiff == 1

\* the fields of a QuotaRule, in the order Less goes through them; Flags last
NumFields == 13

RuleOf(v) ==
    [Prioirity |-> v[1],
     QuotaValue |-> <<v[2], v[5], v[8]>>,
     QuotaSource |-> <<v[3], v[6], v[9]>>,
     QuotaFlags |-> <<v[4], v[7], v[10]>>,
     Op |-> v[11], Limit |-> v[12], Flags |-> v[13]]

\* the rule with prio, and 1 in the fields of D (fields 2..13), 0 elsewhere
RuleWith(prio, D) ==
    RuleOf([k \in 1..NumFields |-> IF k = 1 THEN prio ELSE IF k \in D THEN 1 ELSE 0])

PairRules == {RuleWith(p, D) : p \in {0, 1}, D \in SubsetsUpTo(2..NumFields, MaxDiff)}

PrioRules ==
    {RuleWith(2, {}), RuleWith(2, {13}), RuleWith(1, {2}), RuleWith(1, {12}),
     RuleWith(0, 2..NumFields), RuleWith(0, {11})}

RuleSets ==
    [1..2 -> PairRules]
    \cup {r \in UNION {[1..n -> PrioRules] : n \in 2..MaxRules} :
            \A i \in 1..Len(r) : \A j \in 1..Len(r) : i # j => r[i] # r[j]}

InitRules ==
    /\ rset \in RuleSets /\ cursors = <<>>
    /\ obj = [kind |-> "RuleSet", new |-> rset]
    /\ hist = Fresh(rset)
    /\ kern = {}
    /\ acc = <<>>
    /\ q = ZeroQuery /\ w = ZeroWaiters /\ xq = ZeroXattrQuery
    /\ tg = ZeroTotalsGroup /\ qt = ZeroQuotas
    /\ entry = ZeroKey /\ probe = ZeroKey
    /\ call = NoCall

NextRules == RuleSetLess \/ RuleSetSwap \/ RuleSetSort

SpecRules == InitRules /\ [][NextRules]_vars

\* the orderings of the rules of r
Orderings(r) ==
    {[i \in 1..Len(r) |-> r[f[i]]] :
       f \in {g \in [1..Len(r) -> 1..Len(r)] : \A i, j \in 1..Len(r) : i # j => g[i] # g[j]}}

PairwiseDistinct(r) == \A i, j \in 1..Len(r) : i # j => r[i] # r[j]

\* C18: for pairwise distinct rules (differing in at least one field) exactly
\* one of Less(a, b) and Less(b, a) holds for every pair, and so sorting
\* gives the same order whatever order the rules came in.
C18_SortIsDeterministic ==
    (obj.kind = "RuleSet" /\ PairwiseDistinct(rset)) =>
        /\ \A i, j \in 1..Len(rset) : i # j => (Less(rset, i, j) # Less(rset, j, i))
        /\ hist.op = "Sort" => \A p \in Orderings(hist.pre) : Sort(p) = rset

DistinctPriorities(r) == \A i, j \in 1..Len(r) : i # j => r[i].Prioirity # r[j].Prioirity

\* C19: sorting a RuleSet whose rules have pairwise distinct priorities leaves
\* the same rules in strictly descending Prioirity, whatever the other fields
\* and the order they came in.
C19_SortedByPriority ==
    (hist.op = "Sort" /\ DistinctPriorities(hist.pre)) =>
        /\ rset \in Orderings(hist.pre)
        /\ \A i \in 1..(Len(rset) - 1) : rset[i].Prioirity > rset[i + 1].Prioirity

C19_Witness ==
    /\ hist.op = "Sort" /\ Len(rset) = 3 /\ DistinctPriorities(hist.pre)
    /\ hist.pre[1].Prioirity < hist.pre[2].Prioirity
    /\ hist.pre[2].Prioirity < hist.pre[3].Prioirity
    /\ hist.pre[1].Limit > hist.pre[3].Limit

\* the fields Less compares, as the tuple of the match order
MatchTuple(a) ==
    <<a.Prioirity,
      a.QuotaValue[1], a.QuotaSource[1], a.QuotaFlags[1],
      a.QuotaValue[2], a.QuotaSource[2], a.QuotaFlags[2],
      a.QuotaValue[3], a.QuotaSource[3], a.QuotaFlags[3],
      a.Op, a.Limit>>

\* s is strictly greater than t, lexicographically
LexGreater(s, t) ==
    \E k \in 1..Len(s) : s[k] > t[k] /\ \A m \in 1..(k - 1) : s[m] = t[m]

\* C20: Less(i, j) is true exactly when rule i is strictly greater than rule j
\* in lexicographic order on (Prioirity, the three (value, source, flags)
\* tuples, Op, Limit): each of them descending, in that order.
C20_LessIsMatchOrder ==
    hist.op = "Less" =>
        hist.ret.less = LexGreater(MatchTuple(rset[hist.pre[1]]), MatchTuple(rset[hist.pre[2]]))

C20_Witness ==
    /\ hist.op = "Less" /\ hist.ret.less
    /\ rset[hist.pre[1]].Prioirity = rset[hist.pre[2]].Prioirity
    /\ rset[hist.pre[1]].QuotaValue = rset[hist.pre[2]].QuotaValue
    /\ rset[hist.pre[1]].Op > rset[hist.pre[2]].Op
    /\ rset[hist.pre[1]].Limit < rset[hist.pre[2]].Limit

(***************************************************************************)
(* Any one of the five cursors.                                            *)
(***************************************************************************)
Init == InitQuery \/ InitWaiters \/ InitXattr \/ InitTotals \/ InitQuotas

Next ==
    \/ QueryNext
    \/ WaitersNext \/ WaitersReset
    \/ XattrQueryNext
    \/ TotalsGroupNext \/ TotalsGroupReset
    \/ QuotasNext \/ QuotasReset

Spec == Init /\ [][Next]_vars

\* the struct of the cursor that was constructed, and the request its Next sends
Cursor ==
    CASE obj.kind = "Query" -> q
      [] obj.kind = "Waiters" -> w
      [] obj.kind = "XattrQuery" -> xq
      [] obj.kind = "TotalsGroup" -> tg
      [] obj.kind = "Quotas" -> qt

CursorRequest ==
    CASE obj.kind = "Query" -> QueryRequest(q)
      [] obj.kind = "Waiters" -> WaitersRequest(w)
      [] obj.kind = "XattrQuery" -> XattrRequest(xq)
      [] obj.kind = "TotalsGroup" -> TotalsRequest(tg)
      [] obj.kind = "Quotas" -> QuotasRequest(qt)

NextOps ==
    {"Query.Next", "Waiters.Next", "XattrQuery.Next", "TotalsGroup.Next", "Quotas.Next"}

\* the last operation was a Next that issued its control call
Called == hist.op \in NextOps /\ Len(hist.resps) = 1

\* the entry size the last Next decodes by
EntrySize ==
    CASE hist.op = "Query.Next" -> sizeofInodesEntry
      [] hist.op = "Waiters.Next" -> sizeofDataWaitingEntry
      [] hist.op = "XattrQuery.Next" -> sizeofU64

\* C4: when the control call of a Next (Query, Waiters, XattrQuery,
\* TotalsGroup, Quotas) fails, Next returns (nil, that error), every field of
\* the cursor is as before the call, and a retry sends the same request.
C4_GateErrorLeavesCursor ==
    (Called /\ hist.resps[1].c.err # NoErr) =>
        /\ hist.ret = [val |-> <<>>, isnil |-> TRUE, err |-> hist.resps[1].c.err]
        /\ Cursor = hist.pre
        /\ CursorRequest = hist.reqs[1]

C4_Witness ==
    /\ Called /\ hist.resps[1].c.err = "EIO"
    /\ obj.kind = "Quotas" /\ acc # <<>> /\ qt.iter # <<0, 0>>

\* C5: when a batch of Query.Next, Waiters.Next or XattrQuery.Next does not
\* decode (its count needs more bytes than the buffer holds), Next returns no
\* entries and an error, and the cursor, lower bound and done flag, is as it
\* was before the call.
C5_DecodeFailureLeavesCursor ==
    (/\ Called
     /\ hist.op \in {"Query.Next", "Waiters.Next", "XattrQuery.Next"}
     /\ hist.resps[1].c.err = NoErr
     /\ hist.resps[1].c.n * EntrySize > hist.pre.buflen) =>
        /\ hist.ret.val = <<>> /\ hist.ret.isnil /\ hist.ret.err # NoErr
        /\ Cursor = hist.pre

\* C7: for XattrQuery, TotalsGroup and Quotas, a Next on a cursor whose done
\* flag is set returns (nil, nil), sends no request and leaves the flag set;
\* a Next on a cursor whose done flag is clear sends exactly one request.
C7_DoneIsAbsorbing ==
    hist.op \in {"XattrQuery.Next", "TotalsGroup.Next", "Quotas.Next"} =>
        IF hist.pre.done
        THEN /\ hist.reqs = <<>>
             /\ hist.ret = [val |-> <<>>, isnil |-> TRUE, err |-> NoErr]
             /\ Cursor = hist.pre
        ELSE Len(hist.reqs) = 1

C7_Witness ==
    /\ hist.op = "Quotas.Next" /\ hist.pre.done /\ hist.reqs = <<>>
    /\ acc # <<>>


(***************************************************************************)
(* Increment applied to every key.                                         *)
(***************************************************************************)
IncrementEntry ==
    /\ obj.kind = "InodesEntry"
    /\ entry' = Increment(entry)
    /\ hist' = [op |-> "Increment", pre |-> entry, reqs |-> <<>>, resps |-> <<>>,
                ret |-> RetNil]
    /\ UNCHANGED <<obj, q, w, xq, tg, qt, kern, acc, probe, call, rset, cursors>>

InitKey ==
    /\ entry \in Keys
    /\ obj = [kind |-> "InodesEntry", new |-> entry]
    /\ probe \in Keys
    /\ hist = Fresh(entry)
    /\ acc = <<>>
    /\ kern = {}
    /\ q = ZeroQuery /\ w = ZeroWaiters /\ xq = ZeroXattrQuery
    /\ tg = ZeroTotalsGroup /\ qt = ZeroQuotas
    /\ call = NoCall /\ rset = <<>> /\ cursors = <<>>

NextKey == IncrementEntry

SpecKey == InitKey /\ [][NextKey]_vars

\* C3: for every key but the maximum, Increment gives the next key in
\* (Major, Minor, Ino) order: Ino+1, or Ino 0 and Minor+1, or Ino 0, Minor 0
\* and Major+1; no key lies strictly between a key and its increment.
C3_IncrementIsSuccessor ==
    (obj.kind = "InodesEntry" /\ hist.op = "Increment" /\ hist.pre # MaxKey) =>
        /\ KeyLess(hist.pre, entry)
        /\ ~(KeyLess(hist.pre, probe) /\ KeyLess(probe, entry))
        /\ entry =
             IF hist.pre.Ino < max64
             THEN InodesEntry(hist.pre.Major, hist.pre.Minor, hist.pre.Ino + 1)
             ELSE IF hist.pre.Minor < max32
             THEN InodesEntry(hist.pre.Major, hist.pre.Minor + 1, 0)
             ELSE InodesEntry(hist.pre.Major + 1, 0, 0)

C3_Witness ==
    /\ obj.kind = "InodesEntry" /\ hist.op = "Increment"
    /\ hist.pre.Ino = max64 /\ hist.pre.Minor = max32 /\ hist.pre.Major < max64
    /\ entry = InodesEntry(hist.pre.Major + 1, 0, 0)

\* C24: incrementing twice keeps growing.  Increment returns a key and
\* nothing else, so no increment signals exhaustion: whenever entry is the
\* result of an Increment, the next Increment gives a strictly greater key in
\* (Major, Minor, Ino) order.
C24_IncrementTwiceGrows ==
    [][(obj.kind = "InodesEntry" /\ hist.op = "Increment" /\ hist'.op = "Increment")
         => KeyLess(entry, entry')]_vars

\* C36: Reset restores the initial cursor.  Right after TotalsGroup.Reset,
\* Quotas.Reset or Waiters.Reset, from any state (done included), the cursor
\* struct is the one its constructor returned: same position, not done, same
\* parameters; so what Next does from there is what it does on a new cursor
\* over the same index.
C36_ResetRestoresInitial ==
    hist.op \in {"TotalsGroup.Reset", "Quotas.Reset", "Waiters.Reset"} =>
        /\ Cursor = obj.new
        /\ CursorRequest = (CASE obj.kind = "TotalsGroup" -> TotalsRequest(obj.new)
                              [] obj.kind = "Quotas" -> QuotasRequest(obj.new)
                              [] obj.kind = "Waiters" -> WaitersRequest(obj.new))
        /\ acc = <<>>

C36_Witness ==
    /\ obj.kind = "TotalsGroup" /\ hist.op = "TotalsGroup.Reset"
    /\ hist.pre.done /\ hist.pre.pos # obj.new.pos
    /\ tg = obj.new /\ ~tg.done

(***************************************************************************)
(* The five cursors over their whole life: every Next and Reset, and the   *)
(* SetLast of a Query.                                                     *)
(***************************************************************************)
NextLife == Next \/ QuerySetLast

SpecLife == Init /\ [][NextLife]_vars

\* the capacity a request carries, in records, and the size of one record
Capacity(req) ==
    CASE obj.kind = "Query" -> req.Nr_entries
      [] obj.kind = "Waiters" -> req.Ents_nr
      [] obj.kind = "XattrQuery" -> req.Nr_inodes
      [] obj.kind = "TotalsGroup" -> req.Totals_bytes \div sizeofxattrTotal
      [] obj.kind = "Quotas" -> req.Nr

RecordSize ==
    CASE obj.kind = "Query" -> sizeofInodesEntry
      [] obj.kind = "Waiters" -> sizeofDataWaitingEntry
      [] obj.kind = "XattrQuery" -> sizeofU64
      [] obj.kind = "TotalsGroup" -> sizeofxattrTotal
      [] obj.kind = "Quotas" -> sizeofquotaRule

BatchOf(c) == IF obj.kind \in {"TotalsGroup", "Quotas"} THEN c.count ELSE c.batch

\* C26: constant capacity.  Whatever Next, SetLast and Reset have done, the
\* cursor has the batch size and the buffer length it was constructed with,
\* the buffer length is the batch size times the record size, and every
\* request carries that batch size as its capacity (TotalsGroup sends it as
\* the byte length of the buffer, the other cursors as a record count).
C26_ConstantCapacity ==
    /\ BatchOf(Cursor) = BatchOf(obj.new)
    /\ Cursor.buflen = obj.new.buflen
    /\ Cursor.buflen = BatchOf(obj.new) * RecordSize
    /\ \A i \in 1..Len(hist.reqs) : Capacity(hist.reqs[i]) = BatchOf(obj.new)
    /\ (obj.kind = "TotalsGroup" /\ hist.reqs # <<>>) =>
          hist.reqs[1].Totals_bytes = obj.new.buflen

C26_Witness ==
    /\ obj.kind = "Query" /\ hist.op = "Query.Next" /\ hist.reqs # <<>>
    /\ q.last # obj.new.last /\ q.first # obj.new.first
    /\ obj.new.batch # defaultBatch
    /\ hist.reqs[1].Nr_entries = obj.new.batch

\* C27 as stated: every request of a Query carries the upper bound the Query
\* was constructed with, and every XattrQuery request carries Last_ino =
\* 2^64-1.
C27_UpperBoundFixed ==
    /\ (obj.kind = "Query" /\ hist.reqs # <<>>) => hist.reqs[1].Last = obj.new.last
    /\ (obj.kind = "XattrQuery" /\ hist.reqs # <<>>) => hist.reqs[1].Last_ino = max64

\* C27: the upper bound of a Query is the one it holds.  Query.Next sends the
\* upper bound the cursor holds and leaves it alone; that is the bound given
\* at construction until Query.SetLast replaces it with its argument, which
\* changes nothing else.  Every XattrQuery request carries Last_ino = 2^64-1.
C27_UpperBoundHeld ==
    /\ (obj.kind = "Query" /\ hist.op = "New") => q.last = obj.new.last
    /\ (obj.kind = "Query" /\ hist.op = "Query.Next") =>
          /\ hist.reqs[1].Last = hist.pre.last
          /\ q.last = hist.pre.last
    /\ (obj.kind = "Query" /\ hist.op = "Query.SetLast") =>
          q = [hist.pre EXCEPT !.last = hist.arg]
    /\ (obj.kind = "XattrQuery" /\ hist.reqs # <<>>) => hist.reqs[1].Last_ino = max64

C27_Witness ==
    /\ obj.kind = "Query" /\ hist.op = "Query.Next"
    /\ hist.pre.last # obj.new.last
    /\ hist.reqs[1].Last = hist.pre.last
    /\ hist.ret.val # <<>>

(***************************************************************************)
(* Two Query cursors made by NewQuery over the same open file.  Each has   *)
(* its own struct and its own buffer; the file is only passed to the ioctl.*)
(***************************************************************************)
\* the buffer of a Query as the kernel leaves it: the entries of the answer
\* over the first slots, the rest as it was
StoreBatch(buf, resp) ==
    IF resp.c.err # NoErr THEN buf
    ELSE [j \in 1..Len(buf) |-> IF j <= Len(resp.ents) THEN resp.ents[j] ELSE buf[j]]

NewCursor(opts) ==
    LET qq == NewQuery(opts)
    IN  [q |-> qq, buf |-> [j \in 1..qq.batch |-> ZeroKey], acc |-> <<>>]

NextOnSharedBuffer(cs, i, resp) ==
    LET r == QueryNextResult(cs[i].q, resp)
    IN  [k \in 1..Len(cs) |->
           IF k = i
           THEN [q |-> r.q, buf |-> StoreBatch(cs[i].buf, resp), acc |-> cs[i].acc \o r.ret.val]
           ELSE [cs[k] EXCEPT !.buf = StoreBatch(cs[k].buf, resp)]]

\* Query.Next on cursor i: its receiver is all it reads and writes
NextOn(cs, i, resp) ==
    LET r == QueryNextResult(cs[i].q, resp)
    IN  [cs EXCEPT ![i] = [q |-> r.q, buf |-> StoreBatch(cs[i].buf, resp),
                           acc |-> cs[i].acc \o r.ret.val]]

PairQueryNext ==
    /\ obj.kind = "QueryPair"
    /\ \E i \in 1..2 :
         /\ Len(cursors[i].acc) < MaxAcc
         /\ \E resp \in QueryResponses(kern, QueryRequest(cursors[i].q)) :
              /\ cursors' = NextOn(cursors, i, resp)
              /\ hist' = [op |-> "Query.Next", pre |-> cursors[i].q,
                          reqs |-> <<QueryRequest(cursors[i].q)>>, resps |-> <<resp>>,
                          ret |-> QueryNextResult(cursors[i].q, resp).ret, cur |-> i]
    /\ UNCHANGED <<obj, q, w, xq, tg, qt, kern, acc, entry, probe, call, rset>>

PairOptLists ==
    {<<ByMSeq(ZeroKey, MaxKey), WithBatchSize(b)>> : b \in 1..MaxBatch}
    \cup {<<ByDSeq(ZeroKey, MaxKey), WithBatchSize(1)>>,
          <<ByMSeq(InodesEntry(0, 0, max64), MaxKey), WithBatchSize(1)>>}

PairIndexes ==
    {[i \in {QUERYINODESMETASEQ, QUERYINODESDATASEQ} |->
        IF i = QUERYINODESMETASEQ THEN S ELSE T] :
     S \in SubsetsUpTo(SampleKeys, MaxEntries) \ {{}},
     T \in {{}, {InodesEntry(0, 0, max64)}}}

InitPair ==
    /\ cursors \in {<<NewCursor(a), NewCursor(b)>> : a \in PairOptLists, b \in PairOptLists}
    /\ obj = [kind |-> "QueryPair", new |-> cursors]
    /\ kern \in PairIndexes
    /\ hist = Fresh(cursors[1].q)
    /\ acc = <<>>
    /\ q = ZeroQuery /\ w = ZeroWaiters /\ xq = ZeroXattrQuery
    /\ tg = ZeroTotalsGroup /\ qt = ZeroQuotas
    /\ entry = ZeroKey /\ probe = ZeroKey
    /\ call = NoCall /\ rset = <<>>

NextPair == PairQueryNext

SpecPair == InitPair /\ [][NextPair]_vars

packSize == 53
sizeofWalkEntry == 20

queryInodes(first, last, entries, count, index) ==
    [first |-> first, last |-> last, entries |-> entries, count |-> count, index |-> index]

packPadded(qi) ==
    LET img == LE(qi.first.Major, 8) \o LE(qi.first.Minor, 8) \o LE(qi.first.Ino, 8)
               \o LE(qi.last.Major, 8) \o LE(qi.last.Minor, 8) \o LE(qi.last.Ino, 8)
               \o LE(qi.entries, 8) \o LE(qi.count, 4) \o LE(qi.index, 1)
    IN  IF Len(img) < packSize
        THEN [val |-> Zeros(packSize), err |-> Errorf("read packed", ErrUnexpectedEOF)]
        ELSE [val |-> SubSeq(img, 1, packSize), err |-> NoErr]

\* binary.Write of each field into the buffer, then binary.Read of the
\* buffer into the [53]byte
pack(qi) ==
    LET img == LE(qi.first.Major, 8) \o LE(qi.first.Minor, 4) \o LE(qi.first.Ino, 8)
               \o LE(qi.last.Major, 8) \o LE(qi.last.Minor, 4) \o LE(qi.last.Ino, 8)
               \o LE(qi.entries, 8) \o LE(qi.count, 4) \o LE(qi.index, 1)
    IN  IF Len(img) < packSize
        THEN [val |-> Zeros(packSize), err |-> Errorf("read packed", ErrUnexpectedEOF)]
        ELSE [val |-> SubSeq(img, 1, packSize), err |-> NoErr]

\* binary.Read of Major, Minor and Ino, in that order, from offset off
ReadEntry(b, off) ==
    InodesEntry(FromLE(SubSeq(b, off + 1, off + 8)),
                FromLE(SubSeq(b, off + 9, off + 12)),
                FromLE(SubSeq(b, off + 13, off + 20)))

\* the fields of a packed request, read back in the order they were written
Unpack(b) ==
    queryInodes(ReadEntry(b, 0), ReadEntry(b, sizeofWalkEntry),
                FromLE(SubSeq(b, 2 * sizeofWalkEntry + 1, 2 * sizeofWalkEntry + 8)),
                FromLE(SubSeq(b, 2 * sizeofWalkEntry + 9, 2 * sizeofWalkEntry + 12)),
                b[2 * sizeofWalkEntry + 13])

QueryInodesPack ==
    /\ call.fn = "queryInodes.pack" /\ call.pc = "new"
    /\ LET r == pack(call.query)
       IN  /\ call' = [call EXCEPT !.pc = IF r.err = NoErr THEN "packed" ELSE "done",
                                   !.pack = r.val]
           /\ hist' = [op |-> "pack", pre |-> call, reqs |-> <<>>, resps |-> <<>>,
                       ret |-> [val |-> r.val, isnil |-> FALSE, err |-> r.err]]
    /\ UNCHANGED <<obj, q, w, xq, tg, qt, kern, acc, entry, probe, rset, cursors>>

QueryInodesUnpack ==
    /\ call.fn = "queryInodes.pack" /\ call.pc = "packed"
    /\ call' = [call EXCEPT !.pc = "done", !.out = Unpack(call.pack)]
    /\ hist' = [op |-> "unpack", pre |-> call, reqs |-> <<>>, resps |-> <<>>,
                ret |-> RetNil]
    /\ UNCHANGED <<obj, q, w, xq, tg, qt, kern, acc, entry, probe, rset, cursors>>

\* field values with bytes that differ from one another
SampleWords == {0, 1, 258, 2147483647}

SampleWalkEntries ==
    {InodesEntry(0, 0, 0), InodesEntry(1, 258, 2147483647),
     InodesEntry(2147483647, 1, 258), InodesEntry(258, 2147483647, 1)}

InitCodec ==
    /\ call \in {[fn |-> "queryInodes.pack", pc |-> "new",
                  query |-> queryInodes(f, l, p, c, i), pack |-> <<>>,
                  out |-> queryInodes(ZeroKey, ZeroKey, 0, 0, 0)] :
                 f \in SampleWalkEntries, l \in SampleWalkEntries,
                 p \in {1, 2147483647}, c \in SampleWords \ {0},
                 i \in {QUERYINODESMETASEQ, QUERYINODESDATASEQ}}
    /\ obj = [kind |-> "queryInodes", new |-> call]
    /\ hist = Fresh(call)
    /\ kern = {}
    /\ acc = <<>>
    /\ q = ZeroQuery /\ w = ZeroWaiters /\ xq = ZeroXattrQuery
    /\ tg = ZeroTotalsGroup /\ qt = ZeroQuotas
    /\ entry = ZeroKey /\ probe = ZeroKey
    /\ rset = <<>> /\ cursors = <<>>

NextCodec == QueryInodesPack \/ QueryInodesUnpack

SpecCodec == InitCodec /\ [][NextCodec]_vars

\* C30: codec round trip of the inode-walk request.  The packed image is 53
\* bytes with first.Major, first.Minor, first.Ino, last.Major, last.Minor,
\* last.Ino, the entries pointer, the count and the index at offsets 0, 8, 12,
\* 20, 28, 32, 40, 48 and 52, each little-endian; reading the fields back
\* member by member gives the first and last entries, count and index that
\* were packed.
C30_PackRoundTrip ==
    (call.fn = "queryInodes.pack" /\ call.pc \in {"packed", "done"}) =>
        LET b == call.pack
            qi == call.query
        IN  /\ Len(b) = 53
            /\ hist.op = "pack" => hist.ret.err = NoErr
            /\ SubSeq(b, 1, 8) = LE(qi.first.Major, 8)
            /\ SubSeq(b, 9, 12) = LE(qi.first.Minor, 4)
            /\ SubSeq(b, 13, 20) = LE(qi.first.Ino, 8)
            /\ SubSeq(b, 21, 28) = LE(qi.last.Major, 8)
            /\ SubSeq(b, 29, 32) = LE(qi.last.Minor, 4)
            /\ SubSeq(b, 33, 40) = LE(qi.last.Ino, 8)
            /\ SubSeq(b, 41, 48) = LE(qi.entries, 8)
            /\ SubSeq(b, 49, 52) = LE(qi.count, 4)
            /\ b[53] = qi.index
            /\ call.pc = "done" =>
                  /\ call.out.first = qi.first /\ call.out.last = qi.last
                  /\ call.out.count = qi.count /\ call.out.index = qi.index

C30_Witness ==
    /\ call.fn = "queryInodes.pack" /\ call.pc = "done"
    /\ call.query.first = InodesEntry(1, 258, 2147483647)
    /\ call.query.last = InodesEntry(258, 2147483647, 1)
    /\ call.query.count = 258 /\ call.query.index = QUERYINODESDATASEQ
    /\ call.out.last = call.query.last /\ call.out.first = call.query.first

(***************************************************************************)
(* A Query built from a list of options, some of them By* options that     *)
(* disagree, then walked and moved with SetLast.                           *)
(***************************************************************************)
MaxOpts == 3

SampleOpts ==
    {ByMSeq(ZeroKey, MaxKey), ByDSeq(InodesEntry(0, 0, max64), MaxKey),
     ByMSeq(InodesEntry(0, 0, max64), InodesEntry(0, max32, max64)),
     WithBatchSize(1), WithBatchSize(MaxBatch)}

RECURSIVE OptLists(_)
OptLists(n) ==
    IF n = 0 THEN {<<>>}
    ELSE OptLists(n - 1)
         \cup {Append(l, o) : l \in {x \in OptLists(n - 1) : Len(x) = n - 1},
                              o \in SampleOpts}

OptIndexes ==
    {[i \in {QUERYINODESMETASEQ, QUERYINODESDATASEQ} |->
        IF i = QUERYINODESMETASEQ THEN S
        ELSE {Increment(InodesEntry(0, 0, max64)), MaxKey}] :
     S \in {{ZeroKey}, {InodesEntry(0, 0, max64), MaxKey}}}

InitOptions ==
    /\ call \in {[fn |-> "NewQuery", opts |-> o] : o \in OptLists(MaxOpts)}
    /\ q = NewQuery(call.opts)
    /\ obj = [kind |-> "Query", new |-> q]
    /\ kern \in OptIndexes
    /\ hist = Fresh(q)
    /\ acc = <<>>
    /\ w = ZeroWaiters /\ xq = ZeroXattrQuery /\ tg = ZeroTotalsGroup /\ qt = ZeroQuotas
    /\ entry = ZeroKey /\ probe = ZeroKey
    /\ rset = <<>> /\ cursors = <<>>

NextOptions == QueryNext \/ QuerySetLast

SpecOptions == InitOptions /\ [][NextOptions]_vars

\* the positions of the By* options in a list
ByPositions(opts) == {i \in 1..Len(opts) : opts[i].opt \in {"ByMSeq", "ByDSeq"}}

\* the last By* option of a list that has one
LastBy(opts) == opts[CHOOSE i \in ByPositions(opts) : \A j \in ByPositions(opts) : j <= i]

\* C35: the index selector is chosen once.  The Query has the selector and
\* the bounds of the last By* option of the list it was built from (selector
\* 0, the meta-seq index, and zero bounds if there is none); every request
\* carries that selector, and Next and SetLast leave it as it was.
C35_SelectorChosenOnce ==
    call.fn = "NewQuery" =>
        /\ IF ByPositions(call.opts) = {}
           THEN /\ obj.new.index = QUERYINODESMETASEQ
                /\ obj.new.first = ZeroKey /\ obj.new.last = ZeroKey
           ELSE /\ obj.new.index = (IF LastBy(call.opts).opt = "ByMSeq"
                                    THEN QUERYINODESMETASEQ ELSE QUERYINODESDATASEQ)
                /\ obj.new.first = LastBy(call.opts).from
                /\ obj.new.last = LastBy(call.opts).to
        /\ q.index = obj.new.index
        /\ \A i \in 1..Len(hist.reqs) : hist.reqs[i].Index = obj.new.index

C35_Witness ==
    /\ call.fn = "NewQuery" /\ hist.op = "Query.Next"
    /\ Cardinality(ByPositions(call.opts)) >= 2
    /\ call.opts[1].opt = "ByMSeq" /\ LastBy(call.opts).opt = "ByDSeq"
    /\ q.last # obj.new.last /\ hist.ret.val # <<>>
    /\ hist.reqs[1].Index = QUERYINODESDATASEQ

(***************************************************************************)
(* The find-xattrs cursor of scoutfs.go: a 32-bit batch size, a buffer     *)
(* made on every Next, and a 16-bit capacity field in the request.         *)
(***************************************************************************)
max16 == 65535
defaultFindBatch == 128

\* uint16(x)
U16(x) == x % (max16 + 1)

\* XattrQuery as NewXattrQuery of scoutfs.go leaves it
NewFindXattrQuery(opts) ==
    ApplyXOptions([next |-> 0, batch |-> defaultFindBatch], opts)

\* the findXattrs request Next builds
findXattrs(qq) == [Next_ino |-> qq.next, Nr_inodes |-> U16(qq.batch)]

\* IOCFINDXATTRS, kernel side: the inodes carrying the xattr from Next_ino
\* on, in order; none of them, or as many as Nr_inodes allows
FindXattrsResponses(inos, req) ==
    LET all == SortInts({i \in inos : req.Next_ino <= i})
    IN  {[c |-> scoutfsctl(-1, e), ents |-> <<>>] : e \in Errnos}
        \cup {[c |-> scoutfsctl(Len(e), "0"), ents |-> e] :
                e \in {<<>>, Take(all, req.Nr_inodes)}}

\* Next of scoutfs.go on the kernel's answer, buflen bytes of buffer made
FindXattrQueryNextResult(qq, buflen, resp) ==
    IF resp.c.err # NoErr THEN [xq |-> qq, ret |-> RetErr(resp.c.err)]
    ELSE IF resp.c.n = 0 THEN [xq |-> qq, ret |-> RetNil]
    ELSE IF DecodeFails(resp.c.n, sizeofU64, buflen)
         THEN [xq |-> qq, ret |-> RetErr(ErrEOF)]
    ELSE [xq |-> [qq EXCEPT !.next = Inc64(resp.ents[resp.c.n])],
          ret |-> RetVal(SubSeq(resp.ents, 1, resp.c.n))]

FindXattrQueryNext ==
    /\ obj.kind = "findXattrs"
    /\ Len(acc) < MaxAcc
    /\ LET buflen == sizeofU64 * xq.batch
       IN  \E resp \in FindXattrsResponses(kern, findXattrs(xq)) :
             LET r == FindXattrQueryNextResult(xq, buflen, resp)
             IN  /\ xq' = r.xq
                 /\ acc' = acc \o r.ret.val
                 /\ hist' = [op |-> "XattrQuery.Next", pre |-> xq,
                             reqs |-> <<findXattrs(xq)>>, resps |-> <<resp>>,
                             ret |-> r.ret, buflen |-> buflen]
    /\ UNCHANGED <<obj, q, w, tg, qt, kern, entry, probe, call, rset, cursors>>

\* batch sizes on both sides of what 16 bits hold
SampleXBatch == {1, 2, max16, max16 + 1, max16 + 2, 2 * (max16 + 1)}

FindOptLists ==
    {<<>>}
    \cup {<<WithXBatchSize(b)>> : b \in SampleXBatch}
    \cup {<<WithXBatchSize(b), WithXStartIno(i)>> : b \in SampleXBatch, i \in U64}

InitFind ==
    /\ xq \in {NewFindXattrQuery(opts) : opts \in FindOptLists}
    /\ obj = [kind |-> "findXattrs", new |-> xq]
    /\ kern \in SUBSET U64
    /\ hist = Fresh(xq)
    /\ acc = <<>>
    /\ q = ZeroQuery /\ w = ZeroWaiters /\ tg = ZeroTotalsGroup /\ qt = ZeroQuotas
    /\ entry = ZeroKey /\ probe = ZeroKey
    /\ call = NoCall /\ rset = <<>> /\ cursors = <<>>

NextFind == FindXattrQueryNext

SpecFind == InitFind /\ [][NextFind]_vars

\* C39: the requested capacity is the configured batch size.  For every
\* batch size set with WithXBatchSize, the Nr_inodes each XattrQuery.Next
\* sends is that batch size, which is also the number of 8-byte slots of the
\* buffer the request points at.
C39_CapacityIsBatchSize ==
    (obj.kind = "findXattrs" /\ hist.op = "XattrQuery.Next") =>
        /\ hist.reqs[1].Nr_inodes = hist.pre.batch
        /\ hist.buflen = sizeofU64 * hist.reqs[1].Nr_inodes

====
